---- MODULE Spec2Model ----
(***************************************************************************)
(* TutorSense analytics pipeline: KPI aggregation, versioned score         *)
(* formulas, trend building, heuristic churn risk, at-risk selection,      *)
(* feature engineering, anomaly detection, trend forecasting, persona      *)
(* assignment, intervention ranking, threshold calibration and the         *)
(* orchestrator that assembles the insight bundles; and the service around *)
(* it: POST /api/recompute, the two files the pipeline writes, the        *)
(* explanations requested from the LLM by concurrent workers,              *)
(* GET /api/scores and GET /api/tutor/[id].                                *)
(*                                                                         *)
(* Numbers.  JavaScript numbers are modelled as exact rationals <<n, d>>   *)
(* with d > 0, kept in lowest terms; null is the pair <<0, 0>>.  The       *)
(* feature statistics (variance, standard deviation, z-scores, anomaly     *)
(* score) are kept in a floating point of MantissaBits bits, see FSqrt,    *)
(* and the index of percentile is computed in binary64, see DoubleTimes.   *)
(* The logistic churn model and the generated texts of a bundle are left   *)
(* out; assignPersona and buildSignals are modelled by themselves, the     *)
(* churn probability being an input of buildSignals.                       *)
(***************************************************************************)
EXTENDS Integers, Sequences, FiniteSets, TLC

(***************************************************************************)
(* Bounds of the model.                                                    *)
(***************************************************************************)
\* most tutors in tutors.csv (batch specification)
MaxTutors == 2
\* most valid rows of sessions.csv (batch specification)
MaxSessions == 3
\* most copies of one kind of session for the single tutor of SpecTutor
MaxRep == 2
\* longest list of dates handed to buildTrendForTutor in SpecTrend
MaxDates == 4

Range(s) == {s[i] : i \in 1..Len(s)}

\* const name = value; Body: the value is computed once, then the body
Let(value, Body(_)) == CHOOSE r \in {Body(v) : v \in {value}} : TRUE

(***************************************************************************)
(* Rational arithmetic.                                                    *)
(***************************************************************************)
NULL == <<0, 0>>

Abs(x) == IF x < 0 THEN -x ELSE x

RECURSIVE GCD(_, _)
GCD(a, b) == IF b = 0 THEN a ELSE GCD(b, a % b)

Norm(n, d) ==
  LET g == GCD(Abs(n), d) IN IF n = 0 THEN <<0, 1>> ELSE <<n \div g, d \div g>>

Q(n, d) == Norm(n, d)

I(k) == <<k, 1>>

RAdd(a, b) ==
  LET g == GCD(a[2], b[2])
      l == (a[2] \div g) * b[2]
  IN  Norm(a[1] * (l \div a[2]) + b[1] * (l \div b[2]), l)

RNeg(a) == <<-a[1], a[2]>>

RSub(a, b) == RAdd(a, RNeg(b))

RMul(a, b) ==
  LET g1 == GCD(Abs(a[1]), b[2])
      g2 == GCD(Abs(b[1]), a[2])
  IN  IF a[1] = 0 \/ b[1] = 0 THEN <<0, 1>>
      ELSE <<(a[1] \div g1) * (b[1] \div g2), (a[2] \div g2) * (b[2] \div g1)>>

\* a / b for b # 0
RDiv(a, b) ==
  IF b[1] > 0 THEN RMul(a, <<b[2], b[1]>>) ELSE RMul(a, <<-b[2], -b[1]>>)

RLt(a, b) == a[1] * b[2] < b[1] * a[2]

RLe(a, b) == a[1] * b[2] <= b[1] * a[2]

RMax(a, b) == IF RLt(a, b) THEN b ELSE a

RMin(a, b) == IF RLt(b, a) THEN b ELSE a

RAbs(a) == <<Abs(a[1]), a[2]>>

IsInt(a) == a[2] = 1

\* Math.round: the nearest integer, halves rounded up
MathRound(a) == (2 * a[1] + a[2]) \div (2 * a[2])

RECURSIVE RSum(_)
RSum(s) == IF s = <<>> THEN <<0, 1>> ELSE RAdd(s[1], RSum(Tail(s)))

RECURSIVE ISum(_)
ISum(s) == IF s = <<>> THEN 0 ELSE s[1] + ISum(Tail(s))

\* value ?? fallback
OrElse(value, fallback) == IF value = NULL THEN fallback ELSE value

(***************************************************************************)
(* KPI aggregation and the score formulas (scripts/score_tutors.ts).       *)
(***************************************************************************)
Count(sessions, Test(_)) ==
  Cardinality({i \in 1..Len(sessions) : Test(sessions[i])})

RatingsOf(sessions, Test(_)) ==
  LET Rated(s) == s.rating # NULL /\ Test(s)
      rated == SelectSeq(sessions, Rated)
  IN  [i \in 1..Len(rated) |-> rated[i].rating]

\* the counters and sums the loop over the sessions leaves behind
tally(sessions) ==
  LET Every(s) == TRUE
      First(s) == s.isFirstSession
      Dropout(s) == s.status = "dropout"
      FirstDropout(s) == s.status = "dropout" /\ s.isFirstSession
      Resched(s) == s.status = "rescheduled"
      TutorResched(s) ==
        s.status = "rescheduled" /\ s.rescheduleInitiator = "tutor"
      Tech(s) == s.hasTechIssue
      NoShow(s) == s.noShow
  IN  [ratingSum |-> RSum(RatingsOf(sessions, Every)),
       ratingCount |-> Len(RatingsOf(sessions, Every)),
       dropouts |-> Count(sessions, Dropout),
       techIssues |-> Count(sessions, Tech),
       reschedules |-> Count(sessions, Resched),
       tutorInitiatedReschedules |-> Count(sessions, TutorResched),
       noShowCount |-> Count(sessions, NoShow),
       firstSessionRatingSum |-> RSum(RatingsOf(sessions, First)),
       firstSessionRatingCount |-> Len(RatingsOf(sessions, First)),
       firstSessionDropouts |-> Count(sessions, FirstDropout),
       firstSessionCount |-> Count(sessions, First)]

\* a mutation of computeMetrics: without first sessions the first-session
\* dropout rate is the dropout rate of all the sessions
computeMetricsFirstRateOfAll(sessions) ==
  IF Len(sessions) = 0 THEN
    [avgRating |-> NULL, dropoutRate |-> I(0), techIssueRate |-> I(0),
     rescheduleRate |-> I(0), sessionsCount |-> 0,
     firstSessionAvgRating |-> NULL, firstSessionDropoutRate |-> I(0),
     firstSessionCount |-> 0, tutorInitiatedRescheduleRate |-> I(0),
     tutorInitiatedRescheduleCount |-> 0, noShowRate |-> I(0),
     noShowCount |-> 0]
  ELSE
    Let(tally(sessions), LAMBDA c :
      LET total == Len(sessions)
      IN  [avgRating |->
             IF c.ratingCount > 0 THEN RDiv(c.ratingSum, I(c.ratingCount))
             ELSE NULL,
           dropoutRate |-> IF total > 0 THEN Q(c.dropouts, total) ELSE I(0),
           techIssueRate |->
             IF total > 0 THEN Q(c.techIssues, total) ELSE I(0),
           rescheduleRate |->
             IF total > 0 THEN Q(c.reschedules, total) ELSE I(0),
           sessionsCount |-> total,
           firstSessionAvgRating |->
             IF c.firstSessionRatingCount > 0
             THEN RDiv(c.firstSessionRatingSum, I(c.firstSessionRatingCount))
             ELSE NULL,
           firstSessionDropoutRate |->
             IF c.firstSessionCount > 0
             THEN Q(c.firstSessionDropouts, c.firstSessionCount)
             ELSE Q(c.dropouts, total),
           firstSessionCount |-> c.firstSessionCount,
           tutorInitiatedRescheduleRate |->
             IF c.reschedules > 0
             THEN Q(c.tutorInitiatedReschedules, c.reschedules) ELSE I(0),
           tutorInitiatedRescheduleCount |-> c.tutorInitiatedReschedules,
           noShowRate |-> IF total > 0 THEN Q(c.noShowCount, total) ELSE I(0),
           noShowCount |-> c.noShowCount])

\* a mutation of computeMetrics: tutor-initiated reschedules over all sessions
computeMetricsOverTotal(sessions) ==
  IF Len(sessions) = 0 THEN
    [avgRating |-> NULL, dropoutRate |-> I(0), techIssueRate |-> I(0),
     rescheduleRate |-> I(0), sessionsCount |-> 0,
     firstSessionAvgRating |-> NULL, firstSessionDropoutRate |-> I(0),
     firstSessionCount |-> 0, tutorInitiatedRescheduleRate |-> I(0),
     tutorInitiatedRescheduleCount |-> 0, noShowRate |-> I(0),
     noShowCount |-> 0]
  ELSE
    Let(tally(sessions), LAMBDA c :
      LET total == Len(sessions)
      IN  [avgRating |->
             IF c.ratingCount > 0 THEN RDiv(c.ratingSum, I(c.ratingCount))
             ELSE NULL,
           dropoutRate |-> IF total > 0 THEN Q(c.dropouts, total) ELSE I(0),
           techIssueRate |->
             IF total > 0 THEN Q(c.techIssues, total) ELSE I(0),
           rescheduleRate |->
             IF total > 0 THEN Q(c.reschedules, total) ELSE I(0),
           sessionsCount |-> total,
           firstSessionAvgRating |->
             IF c.firstSessionRatingCount > 0
             THEN RDiv(c.firstSessionRatingSum, I(c.firstSessionRatingCount))
             ELSE NULL,
           firstSessionDropoutRate |->
             IF c.firstSessionCount > 0
             THEN Q(c.firstSessionDropouts, c.firstSessionCount) ELSE I(0),
           firstSessionCount |-> c.firstSessionCount,
           tutorInitiatedRescheduleRate |->
             IF total > 0 THEN Q(c.tutorInitiatedReschedules, total)
             ELSE I(0),
           tutorInitiatedRescheduleCount |-> c.tutorInitiatedReschedules,
           noShowRate |-> IF total > 0 THEN Q(c.noShowCount, total) ELSE I(0),
           noShowCount |-> c.noShowCount])

computeMetrics(sessions) ==
  IF Len(sessions) = 0 THEN
    [avgRating |-> NULL, dropoutRate |-> I(0), techIssueRate |-> I(0),
     rescheduleRate |-> I(0), sessionsCount |-> 0,
     firstSessionAvgRating |-> NULL, firstSessionDropoutRate |-> I(0),
     firstSessionCount |-> 0, tutorInitiatedRescheduleRate |-> I(0),
     tutorInitiatedRescheduleCount |-> 0, noShowRate |-> I(0),
     noShowCount |-> 0]
  ELSE
    Let(tally(sessions), LAMBDA c :
      LET total == Len(sessions)
      IN  [avgRating |->
             IF c.ratingCount > 0 THEN RDiv(c.ratingSum, I(c.ratingCount))
             ELSE NULL,
           dropoutRate |-> IF total > 0 THEN Q(c.dropouts, total) ELSE I(0),
           techIssueRate |->
             IF total > 0 THEN Q(c.techIssues, total) ELSE I(0),
           rescheduleRate |->
             IF total > 0 THEN Q(c.reschedules, total) ELSE I(0),
           sessionsCount |-> total,
           firstSessionAvgRating |->
             IF c.firstSessionRatingCount > 0
             THEN RDiv(c.firstSessionRatingSum, I(c.firstSessionRatingCount))
             ELSE NULL,
           firstSessionDropoutRate |->
             IF c.firstSessionCount > 0
             THEN Q(c.firstSessionDropouts, c.firstSessionCount) ELSE I(0),
           firstSessionCount |-> c.firstSessionCount,
           tutorInitiatedRescheduleRate |->
             IF c.reschedules > 0
             THEN Q(c.tutorInitiatedReschedules, c.reschedules) ELSE I(0),
           tutorInitiatedRescheduleCount |-> c.tutorInitiatedReschedules,
           noShowRate |-> IF total > 0 THEN Q(c.noShowCount, total) ELSE I(0),
           noShowCount |-> c.noShowCount])

\* a mutation of clampScore: the lower clamp is lost
clampScoreNoFloor(value) == IF value > 100 THEN 100 ELSE value

\* value is the integer Math.round returned, so it is always finite
clampScore(value) ==
  IF value < 0 THEN 0 ELSE IF value > 100 THEN 100 ELSE value

\* a mutation of volumePenalty: no penalty for a short history
volumePenaltyNone(sessionsCount) == 0

\* metrics.sessionsCount < 5 ? 4 : metrics.sessionsCount < 10 ? 2 : 0
volumePenalty(sessionsCount) ==
  IF sessionsCount < 5 THEN 4 ELSE IF sessionsCount < 10 THEN 2 ELSE 0

\* a missing rating counted as 0 stars
computeScoreV1NullAsZero(metrics) ==
  LET ratingForPenalty == OrElse(metrics.avgRating, I(0))
      rawScore ==
        RSub(I(100),
             RSum(<<RMul(metrics.dropoutRate, I(40)),
                    RMul(metrics.techIssueRate, I(30)),
                    RMul(metrics.rescheduleRate, I(20)),
                    RMul(RSub(I(5), ratingForPenalty), I(10))>>))
  IN  clampScore(MathRound(rawScore))

computeScoreV1(metrics) ==
  LET ratingForPenalty == OrElse(metrics.avgRating, I(5))
      rawScore ==
        RSub(I(100),
             RSum(<<RMul(metrics.dropoutRate, I(40)),
                    RMul(metrics.techIssueRate, I(30)),
                    RMul(metrics.rescheduleRate, I(20)),
                    RMul(RSub(I(5), ratingForPenalty), I(10))>>))
  IN  clampScore(MathRound(rawScore))

computeScoreV2(metrics) ==
  LET avgRating == OrElse(metrics.avgRating, I(5))
      firstSessionRating ==
        OrElse(metrics.firstSessionAvgRating, OrElse(metrics.avgRating, I(5)))
      dropoutPenalty == RMul(metrics.dropoutRate, I(30))
      firstSessionDropoutPenalty ==
        RMul(I(IF metrics.firstSessionCount > 0 THEN 35 ELSE 20),
             metrics.firstSessionDropoutRate)
      techPenalty == RMul(metrics.techIssueRate, I(18))
      reschedulePenalty == RMul(metrics.rescheduleRate, I(12))
      tutorReschedulePenalty ==
        RMul(metrics.tutorInitiatedRescheduleRate, I(20))
      noShowPenalty == RMul(metrics.noShowRate, I(28))
      ratingPenalty == RMul(RSub(I(5), avgRating), I(12))
      firstSessionRatingPenalty ==
        RMul(RMax(I(0), RSub(Q(9, 2), firstSessionRating)), I(8))
      penaltySum ==
        RSum(<<dropoutPenalty, firstSessionDropoutPenalty, techPenalty,
               reschedulePenalty, tutorReschedulePenalty, noShowPenalty,
               ratingPenalty, firstSessionRatingPenalty,
               I(volumePenalty(metrics.sessionsCount))>>)
      rawScore == RSub(I(100), penaltySum)
  IN  clampScore(MathRound(rawScore))

computeScore(metrics, version) ==
  IF version = "v1" THEN computeScoreV1(metrics) ELSE computeScoreV2(metrics)

\* a mutation of clamp01: the upper clamp is lost
clamp01NoCeiling(value) == IF RLt(value, I(0)) THEN I(0) ELSE value

clamp01(value) ==
  IF RLt(value, I(0)) THEN I(0)
  ELSE IF RLt(I(1), value) THEN I(1) ELSE value

\* a mutation of computeChurnRisk: a tutor without a first-session rating
\* is treated as one rated below 3.0
computeChurnRiskNullAsLow(metrics, score, trend) ==
  LET base ==
        RSum(<<RMul(metrics.dropoutRate, Q(4, 10)),
               RMul(metrics.noShowRate, Q(3, 10)),
               RMul(metrics.tutorInitiatedRescheduleRate, Q(2, 10)),
               RMul(metrics.firstSessionDropoutRate, Q(1, 10))>>)
      firstRating ==
        IF metrics.firstSessionAvgRating = NULL
           \/ RLt(metrics.firstSessionAvgRating, I(3))
        THEN Q(5, 100) ELSE I(0)
      band ==
        IF score < 50 THEN Q(12, 100)
        ELSE IF score < 60 THEN Q(8, 100)
        ELSE IF score < 70 THEN Q(4, 100) ELSE I(0)
      trendDelta == trend[Len(trend)] - trend[1]
      trendTerm ==
        IF Len(trend) >= 2 THEN
          IF trendDelta < -15 THEN Q(7, 100)
          ELSE IF trendDelta < -8 THEN Q(4, 100)
          ELSE IF trendDelta > 5 THEN Q(-3, 100) ELSE I(0)
        ELSE I(0)
  IN  clamp01(RSum(<<base, firstRating, band, trendTerm>>))

computeChurnRisk(metrics, score, trend) ==
  LET base ==
        RSum(<<RMul(metrics.dropoutRate, Q(4, 10)),
               RMul(metrics.noShowRate, Q(3, 10)),
               RMul(metrics.tutorInitiatedRescheduleRate, Q(2, 10)),
               RMul(metrics.firstSessionDropoutRate, Q(1, 10))>>)
      firstRating ==
        IF metrics.firstSessionAvgRating # NULL
           /\ RLt(metrics.firstSessionAvgRating, I(3))
        THEN Q(5, 100) ELSE I(0)
      band ==
        IF score < 50 THEN Q(12, 100)
        ELSE IF score < 60 THEN Q(8, 100)
        ELSE IF score < 70 THEN Q(4, 100) ELSE I(0)
      trendDelta == trend[Len(trend)] - trend[1]
      trendTerm ==
        IF Len(trend) >= 2 THEN
          IF trendDelta < -15 THEN Q(7, 100)
          ELSE IF trendDelta < -8 THEN Q(4, 100)
          ELSE IF trendDelta > 5 THEN Q(-3, 100) ELSE I(0)
        ELSE I(0)
  IN  clamp01(RSum(<<base, firstRating, band, trendTerm>>))

\* a mutation of smoothTrend: a one-element trend is dropped
smoothTrendDropsSingle(trend) ==
  IF Len(trend) <= 1 THEN <<>>
  ELSE [i \in 1..Len(trend) |->
          LET start == IF i - 1 > 1 THEN i - 1 ELSE 1
              end == IF i + 1 < Len(trend) THEN i + 1 ELSE Len(trend)
              window == SubSeq(trend, start, end)
          IN  MathRound(Q(ISum(window), Len(window)))]

\* windowSize is 3 at the only call, so halfWindow is 1; positions are 1-based
smoothTrend(trend) ==
  IF Len(trend) = 0 THEN <<>>
  ELSE IF Len(trend) = 1 THEN trend
  ELSE [i \in 1..Len(trend) |->
          LET start == IF i - 1 > 1 THEN i - 1 ELSE 1
              end == IF i + 1 < Len(trend) THEN i + 1 ELSE Len(trend)
              window == SubSeq(trend, start, end)
          IN  MathRound(Q(ISum(window), Len(window)))]

\* a mutation of rawTrend: a day without sessions takes the fallback score
rawTrendNoCarry(sessions, dates, lastScore, formulaVersion) ==
  [i \in 1..Len(dates) |->
     LET OnDay(s) == s.date = dates[i]
         dailySessions == SelectSeq(sessions, OnDay)
     IN  IF Len(dailySessions) > 0
         THEN computeScore(computeMetrics(dailySessions), formulaVersion)
         ELSE lastScore]

\* the raw daily sequence, before smoothing
RECURSIVE rawTrend(_, _, _, _)
rawTrend(sessions, dates, lastScore, formulaVersion) ==
  IF dates = <<>> THEN <<>>
  ELSE LET OnDay(s) == s.date = dates[1]
           dailySessions == SelectSeq(sessions, OnDay)
           score ==
             IF Len(dailySessions) > 0
             THEN computeScore(computeMetrics(dailySessions), formulaVersion)
             ELSE lastScore
       IN  <<score>> \o rawTrend(sessions, Tail(dates), score, formulaVersion)

buildTrendForTutor(sessions, dates, fallbackScore, formulaVersion) ==
  smoothTrend(rawTrend(sessions, dates, fallbackScore, formulaVersion))

\* round(value, decimals) for decimals >= 0
round(value, decimals) ==
  Q(MathRound(RMul(value, I(10 ^ decimals))), 10 ^ decimals)

\* Number(value.toFixed(decimals)): value to the nearest 10^-decimals
toFixed(value, decimals) ==
  Q(MathRound(RMul(value, I(10 ^ decimals))), 10 ^ decimals)

\* Number((churnRisk * 100).toFixed(1)): the risk as a percentage, one decimal
ToPercent(churnRisk) == toFixed(RMul(churnRisk, I(100)), 1)

\* the days of the trend window; days are numbered, day n + 1 follows day n
TrendDays == 7

\* new Date() when there is no session at all
Today == 0

NoDate == -1

buildTrendDates(latestSessionDate) ==
  LET baseDate == IF latestSessionDate # NoDate THEN latestSessionDate ELSE Today
      startDate == baseDate - (TrendDays - 1)
  IN  [i \in 1..TrendDays |-> startDate + (i - 1)]

\* one iteration of the scoring loop of runScoringPipeline: the entry pushed
\* on tutorOutputs, with the locals metrics and churnRisk it was built from
scoreTutor(tutorId, sessions, trendDates, formulaVersion) ==
  Let(computeMetrics(sessions), LAMBDA metrics :
  Let(computeScore(metrics, formulaVersion), LAMBDA score :
  Let(buildTrendForTutor(sessions, trendDates, score, formulaVersion),
      LAMBDA trend :
  Let(computeChurnRisk(metrics, score, trend), LAMBDA churnRisk :
    [metrics |-> metrics,
     churnRisk |-> churnRisk,
     output |->
      [tutor_id |-> tutorId,
       score |-> score,
       trend_7d |-> trend,
       kpis |->
         [avg_rating |->
            IF metrics.avgRating = NULL THEN NULL
            ELSE round(metrics.avgRating, 2),
          dropout_rate |-> round(metrics.dropoutRate, 4),
          tech_issue_rate |-> round(metrics.techIssueRate, 4),
          reschedule_rate |-> round(metrics.rescheduleRate, 4),
          sessions_count |-> metrics.sessionsCount,
          first_session_avg_rating |->
            IF metrics.firstSessionAvgRating = NULL THEN NULL
            ELSE round(metrics.firstSessionAvgRating, 2),
          first_session_dropout_rate |->
            round(metrics.firstSessionDropoutRate, 4),
          first_session_count |-> metrics.firstSessionCount,
          tutor_initiated_reschedule_rate |->
            round(metrics.tutorInitiatedRescheduleRate, 4),
          no_show_rate |-> round(metrics.noShowRate, 4)],
       churn_risk |-> ToPercent(churnRisk)]]))))

\* (a, b) => a.score - b.score || a.tutor_id.localeCompare(b.tutor_id)
OutputBefore(a, b) ==
  a.score < b.score \/ (a.score = b.score /\ a.tutor_id < b.tutor_id)

\* Array.prototype.sort, which is stable: element i goes after every element
\* that sorts before it and after the equal elements that precede it
StableSort(s, Before(_, _)) ==
  LET Rank(i) ==
        Cardinality({j \in 1..Len(s) : Before(s[j], s[i])})
        + Cardinality({j \in 1..(i - 1) :
                         ~Before(s[i], s[j]) /\ ~Before(s[j], s[i])})
        + 1
  IN  [k \in 1..Len(s) |-> s[CHOOSE i \in 1..Len(s) : Rank(i) = k]]

(***************************************************************************)
(* Feature engineering (lib/ai/feature_engineering.ts).                    *)
(***************************************************************************)
FEATURE_KEYS ==
  <<"dropout_rate", "tech_issue_rate", "reschedule_rate", "sessions_count",
    "avg_rating", "first_session_avg_rating", "first_session_dropout_rate",
    "first_session_count", "tutor_initiated_reschedule_rate", "no_show_rate",
    "score", "trend_slope", "trend_variance", "trend_velocity", "churn_risk">>

FeatureNames == {FEATURE_KEYS[i] : i \in 1..Len(FEATURE_KEYS)}

\* every value that reaches safeNumber is a finite number or null
safeNumber(value) == IF value = NULL THEN I(0) ELSE value

\* sum over i of (i - xMean) * (trend[i] - yMean), positions 0-based
computeTrendSlope(trend) ==
  IF Len(trend) = 0 THEN I(0)
  ELSE
    LET n == Len(trend)
        xMean == Q(n - 1, 2)
        yMean == Q(ISum(trend), n)
        numerator ==
          RSum([i \in 1..n |->
                  RMul(RSub(I(i - 1), xMean), RSub(I(trend[i]), yMean))])
        denominator ==
          RSum([i \in 1..n |->
                  RMul(RSub(I(i - 1), xMean), RSub(I(i - 1), xMean))])
    IN  IF denominator = I(0) THEN I(0) ELSE RDiv(numerator, denominator)

computeTrendVariance(trend) ==
  IF Len(trend) = 0 THEN I(0)
  ELSE
    LET mean == Q(ISum(trend), Len(trend))
    IN  RDiv(RSum([i \in 1..Len(trend) |->
                     RMul(RSub(I(trend[i]), mean), RSub(I(trend[i]), mean))]),
             I(Len(trend)))

computeTrendVelocity(trend) ==
  IF Len(trend) < 2 THEN I(0) ELSE I(trend[Len(trend)] - trend[1])

\* a mutation of labelChurn: the dropout-rate test is lost
labelChurnNoDropout(score, churn_risk, dropout_rate) ==
  IF score < 60 \/ RLt(I(55), churn_risk) THEN 1 ELSE 0

\* score < 60 || churn_risk > 55 || kpis.dropout_rate > 0.18 ? 1 : 0
labelChurn(score, churn_risk, dropout_rate) ==
  IF score < 60 \/ RLt(I(55), churn_risk) \/ RLt(Q(18, 100), dropout_rate)
  THEN 1 ELSE 0

buildFeatureVector(tutor) ==
  LET kpis == tutor.kpis
  IN  [tutorId |-> tutor.tutor_id,
       features |->
         [dropout_rate |-> safeNumber(kpis.dropout_rate),
          tech_issue_rate |-> safeNumber(kpis.tech_issue_rate),
          reschedule_rate |-> safeNumber(kpis.reschedule_rate),
          sessions_count |-> safeNumber(I(kpis.sessions_count)),
          avg_rating |-> safeNumber(kpis.avg_rating),
          first_session_avg_rating |->
            safeNumber(kpis.first_session_avg_rating),
          first_session_dropout_rate |->
            safeNumber(kpis.first_session_dropout_rate),
          first_session_count |-> safeNumber(I(kpis.first_session_count)),
          tutor_initiated_reschedule_rate |->
            safeNumber(kpis.tutor_initiated_reschedule_rate),
          no_show_rate |-> safeNumber(kpis.no_show_rate),
          score |-> safeNumber(I(tutor.score)),
          trend_slope |-> computeTrendSlope(tutor.trend_7d),
          trend_variance |-> computeTrendVariance(tutor.trend_7d),
          trend_velocity |-> computeTrendVelocity(tutor.trend_7d),
          churn_risk |-> safeNumber(RDiv(tutor.churn_risk, I(100)))],
       labelChurn |->
         labelChurn(tutor.score, tutor.churn_risk, kpis.dropout_rate)]

(***************************************************************************)
(* Floating point for the statistics.  A non-negative number is            *)
(* <<m, e>> = m * 2^e with m of exactly MantissaBits bits, or <<0, 0>> for *)
(* zero: the variance of a feature and its square root are not rationals   *)
(* of bounded size, so they are kept to MantissaBits significant bits.     *)
(***************************************************************************)
MantissaBits == 14

FZero == <<0, 0>>

RECURSIVE FNorm(_, _)
FNorm(m, e) ==
  IF m = 0 THEN FZero
  ELSE IF m >= 2 ^ MantissaBits THEN FNorm(m \div 2, e + 1)
  ELSE IF m < 2 ^ (MantissaBits - 1) THEN FNorm(m * 2, e - 1)
  ELSE <<m, e>>

FInt(n) == FNorm(n, 0)

FDiv(a, b) ==
  IF a[1] = 0 THEN FZero
  ELSE FNorm((a[1] * 2 ^ MantissaBits) \div b[1], a[2] - b[2] - MantissaBits)

\* the float nearest below a non-negative rational
FRat(r) == FDiv(FInt(r[1]), FInt(r[2]))

FMul(a, b) == FNorm(a[1] * b[1], a[2] + b[2])

FShift(a, e) ==
  IF e - a[2] > 2 * MantissaBits THEN 0 ELSE a[1] \div (2 ^ (e - a[2]))

FAdd(a, b) ==
  IF a[1] = 0 THEN b
  ELSE IF b[1] = 0 THEN a
  ELSE LET e == IF a[2] > b[2] THEN a[2] ELSE b[2]
       IN  FNorm(FShift(a, e) + FShift(b, e), e)

FLt(a, b) ==
  IF a[1] = 0 THEN b[1] > 0
  ELSE IF b[1] = 0 THEN FALSE
  ELSE a[2] < b[2] \/ (a[2] = b[2] /\ a[1] < b[1])

FMin(a, b) == IF FLt(b, a) THEN b ELSE a

FMax(a, b) == IF FLt(a, b) THEN b ELSE a

RECURSIVE FSumSeq(_)
FSumSeq(s) == IF s = <<>> THEN FZero ELSE FAdd(s[1], FSumSeq(Tail(s)))

\* the largest k in lo..hi with k * k <= n, given lo * lo <= n
RECURSIVE ISqrt(_, _, _)
ISqrt(n, lo, hi) ==
  IF lo >= hi THEN lo
  ELSE LET mid == (lo + hi + 1) \div 2
       IN  IF mid * mid <= n THEN ISqrt(n, mid, hi) ELSE ISqrt(n, lo, mid - 1)

\* Math.sqrt
FSqrt(a) ==
  IF a[1] = 0 THEN FZero
  ELSE LET shift == MantissaBits - 1
           odd == (a[2] - shift) % 2 # 0
           m == IF odd THEN a[1] * 2 ELSE a[1]
           e == IF odd THEN a[2] - 1 ELSE a[2]
           scaled == m * 2 ^ shift
       IN  FNorm(ISqrt(scaled, 0, 2 ^ MantissaBits), (e - shift) \div 2)

\* a mutation of computeStatistics: a standard deviation of 0 is kept
computeStatisticsKeepsZero(vectors) ==
  LET n == IF Len(vectors) > 1 THEN Len(vectors) ELSE 1
      Mean(key) == RDiv(RSum([i \in 1..Len(vectors) |->
                                vectors[i].features[key]]), I(n))
      Variance(key, mean) ==
        FDiv(FSumSeq([i \in 1..Len(vectors) |->
                        Let(FRat(RAbs(RSub(vectors[i].features[key], mean))),
                            LAMBDA dev : FMul(dev, dev))]),
             FInt(n))
  IN  Let([key \in FeatureNames |-> Mean(key)], LAMBDA means :
        [means |-> means,
         stdDevs |->
           [key \in FeatureNames |-> FSqrt(Variance(key, means[key]))]])

\* means are exact; a standard deviation is a float
computeStatistics(vectors) ==
  LET n == IF Len(vectors) > 1 THEN Len(vectors) ELSE 1
      Mean(key) == RDiv(RSum([i \in 1..Len(vectors) |->
                                vectors[i].features[key]]), I(n))
      Variance(key, mean) ==
        FDiv(FSumSeq([i \in 1..Len(vectors) |->
                        Let(FRat(RAbs(RSub(vectors[i].features[key], mean))),
                            LAMBDA dev : FMul(dev, dev))]),
             FInt(n))
      StdDev(key, mean) ==
        Let(FSqrt(Variance(key, mean)),
            LAMBDA root : IF root = FZero THEN FInt(1) ELSE root)
  IN  Let([key \in FeatureNames |-> Mean(key)], LAMBDA means :
        [means |-> means,
         stdDevs |-> [key \in FeatureNames |-> StdDev(key, means[key])]])

buildFeatureMatrix(tutors) ==
  Let([i \in 1..Len(tutors) |-> buildFeatureVector(tutors[i])],
      LAMBDA vectors :
        [vectors |-> vectors,
         stats |-> computeStatistics(vectors),
         featureOrder |-> FEATURE_KEYS])

(***************************************************************************)
(* Anomaly detector (lib/ai/anomaly_detector.ts).                          *)
(***************************************************************************)
WEIGHTED_FEATURES ==
  <<[feature |-> "dropout_rate", weight |-> Q(12, 10)],
    [feature |-> "no_show_rate", weight |-> Q(11, 10)],
    [feature |-> "tutor_initiated_reschedule_rate", weight |-> Q(10, 10)],
    [feature |-> "trend_velocity", weight |-> Q(8, 10)],
    [feature |-> "trend_variance", weight |-> Q(6, 10)],
    [feature |-> "sessions_count", weight |-> Q(4, 10)]>>

\* Math.abs(computeZScore(value, mean, stdDev))
computeZScore(value, mean, stdDev) ==
  IF stdDev = FZero THEN FZero
  ELSE FDiv(FRat(RAbs(RSub(value, mean))), stdDev)

\* clamp(value, 0, 1) of the anomaly detector; value is never NaN
clampUnit(value) == FMin(FInt(1), FMax(FZero, value))

detectAnomaly(vector, matrix) ==
  Let([k \in 1..Len(WEIGHTED_FEATURES) |->
         computeZScore(vector.features[WEIGHTED_FEATURES[k].feature],
                       matrix.stats.means[WEIGHTED_FEATURES[k].feature],
                       matrix.stats.stdDevs[WEIGHTED_FEATURES[k].feature])],
      LAMBDA zScores :
  Let(FSumSeq([k \in 1..Len(WEIGHTED_FEATURES) |->
                 FMul(zScores[k], FRat(WEIGHTED_FEATURES[k].weight))]),
      LAMBDA anomalyScore :
  Let(clampUnit(FDiv(anomalyScore, FInt(12))), LAMBDA normalised :
      [score |-> normalised,
       label |->
         IF FLt(FRat(Q(65, 100)), normalised) THEN "critical"
         ELSE IF FLt(FRat(Q(4, 10)), normalised) THEN "watch" ELSE "normal",
       contributors |->
         LET IsContributor(k) == FLt(FRat(Q(175, 100)), zScores[k])
             hits == SelectSeq([k \in 1..Len(WEIGHTED_FEATURES) |-> k],
                               IsContributor)
         IN  [i \in 1..Len(hits) |-> WEIGHTED_FEATURES[hits[i]].feature]])))

(***************************************************************************)
(* Trend forecaster (lib/ai/trend_forecaster.ts).                          *)
(***************************************************************************)
\* value is always finite
clamp(value, min, max) == RMin(max, RMax(min, value))

computeLinearRegression(trend) ==
  IF Len(trend) = 0 THEN [slope |-> I(0), intercept |-> I(0)]
  ELSE
    LET n == Len(trend)
        xMean == Q(n - 1, 2)
        yMean == Q(ISum(trend), n)
        numerator ==
          RSum([i \in 1..n |->
                  RMul(RSub(I(i - 1), xMean), RSub(I(trend[i]), yMean))])
        denominator ==
          RSum([i \in 1..n |->
                  RMul(RSub(I(i - 1), xMean), RSub(I(i - 1), xMean))])
    IN  Let(IF denominator = I(0) THEN I(0)
            ELSE RDiv(numerator, denominator),
            LAMBDA slope :
              [slope |-> slope, intercept |-> RSub(yMean, RMul(slope, xMean))])

\* slope * index + intercept is always finite, so the fallback is never used
projectValue(index, slope, intercept, fallback) ==
  RAdd(RMul(slope, I(index)), intercept)

\* volatile on the variance alone
classifyTrajectoryVarianceOnly(slope, variance) ==
  IF RLt(I(30), variance) THEN "volatile"
  ELSE IF RLt(Q(1, 2), slope) THEN "improving"
  ELSE IF RLt(slope, Q(-1, 2)) THEN "declining"
  ELSE "stable"

classifyTrajectory(slope, variance) ==
  IF RLt(RAbs(slope), Q(1, 2)) /\ RLt(I(30), variance) THEN "volatile"
  ELSE IF RLt(Q(1, 2), slope) THEN "improving"
  ELSE IF RLt(slope, Q(-1, 2)) THEN "declining"
  ELSE "stable"

computeVariance(trend) ==
  IF Len(trend) = 0 THEN I(0)
  ELSE
    LET mean == Q(ISum(trend), Len(trend))
    IN  RDiv(RSum([i \in 1..Len(trend) |->
                     RMul(RSub(I(trend[i]), mean), RSub(I(trend[i]), mean))]),
             I(Len(trend)))

forecastTrend(trend, currentScore) ==
  Let(computeLinearRegression(trend), LAMBDA regression :
  Let(computeVariance(trend), LAMBDA variance :
  Let(projectValue(Len(trend) + 7, regression.slope, regression.intercept,
                   I(currentScore)),
      LAMBDA projected7 :
  Let(projectValue(Len(trend) + 14, regression.slope, regression.intercept,
                   projected7),
      LAMBDA projected14 :
      [score7d |-> clamp(projected7, I(0), I(100)),
       score14d |-> clamp(projected14, I(0), I(100)),
       trajectory |-> classifyTrajectory(regression.slope, variance),
       confidence |->
         clamp(RSub(I(1), RMin(I(1), RDiv(variance, I(80)))),
               Q(2, 10), Q(95, 100))]))))

(***************************************************************************)
(* Intervention recommender (lib/ai/intervention_recommender.ts).          *)
(***************************************************************************)
\* the ids of INTERVENTION_LIBRARY, in library order
INTERVENTION_LIBRARY ==
  <<"first-session-rescue", "tech-intervention", "scheduling-discipline",
    "no-show-mitigation", "quality-lift", "momentum-boost">>

\* item.match(vector, context); features are never undefined, so no ?? applies
match(id, vector, context) ==
  LET f == vector.features
  IN  CASE id = "first-session-rescue" ->
             RMax(I(0),
                  RAdd(RMul(OrElse(f.first_session_dropout_rate, I(0)), I(2)),
                       RSub(Q(35, 10),
                            OrElse(f.first_session_avg_rating, I(5)))))
        [] id = "tech-intervention" ->
             RMul(OrElse(f.tech_issue_rate, I(0)), I(4))
        [] id = "scheduling-discipline" ->
             RMul(OrElse(f.tutor_initiated_reschedule_rate, I(0)), I(3))
        [] id = "no-show-mitigation" ->
             RMul(OrElse(f.no_show_rate, I(0)), I(4))
        [] id = "quality-lift" ->
             RMax(I(0), RSub(Q(45, 10), OrElse(f.avg_rating, I(5))))
        [] id = "momentum-boost" ->
             IF context.forecastTrajectory = "declining"
             THEN RDiv(RAbs(OrElse(f.trend_velocity, I(0))), I(10))
             ELSE I(0)

\* the effectiveness item.build(vector) returns
baseEffectiveness(id) ==
  CASE id = "first-session-rescue" -> Q(75, 100)
    [] id = "tech-intervention" -> Q(68, 100)
    [] id = "scheduling-discipline" -> Q(62, 100)
    [] id = "no-show-mitigation" -> Q(65, 100)
    [] id = "quality-lift" -> Q(58, 100)
    [] id = "momentum-boost" -> Q(55, 100)

\* a mutation of recommendInterventions: the library order is kept, unsorted
recommendInterventionsUnsorted(vector, context) ==
  Let([id \in Range(INTERVENTION_LIBRARY) |-> match(id, vector, context)],
      LAMBDA score :
        LET Kept(id) == RLt(Q(5, 100), score[id])
            scored == SelectSeq(INTERVENTION_LIBRARY, Kept)
            top == SubSeq(scored, 1, IF Len(scored) < 3 THEN Len(scored) ELSE 3)
        IN  [index \in 1..Len(top) |->
               [id |-> top[index],
                effectiveness |->
                  RMin(Q(95, 100),
                       RAdd(baseEffectiveness(top[index]),
                            RMul(I(index - 1), Q(5, 100))))]])

recommendInterventions(vector, context) ==
  Let([id \in Range(INTERVENTION_LIBRARY) |-> match(id, vector, context)],
      LAMBDA score :
        LET Kept(id) == RLt(Q(5, 100), score[id])
            scored == SelectSeq(INTERVENTION_LIBRARY, Kept)
            \* (a, b) => b.score - a.score
            Higher(a, b) == RLt(score[b], score[a])
        IN  Let(StableSort(scored, Higher), LAMBDA sorted :
              LET top ==
                    SubSeq(sorted, 1, IF Len(sorted) < 3 THEN Len(sorted) ELSE 3)
              IN  [index \in 1..Len(top) |->
                     [id |-> top[index],
                      effectiveness |->
                        RMin(Q(95, 100),
                             RAdd(baseEffectiveness(top[index]),
                                  RMul(I(index - 1), Q(5, 100))))]]))

(***************************************************************************)
(* Persona clusters (lib/ai/pattern_recognition.ts).                       *)
(***************************************************************************)
\* the ids of PERSONA_LIBRARY, in library order
PERSONA_LIBRARY ==
  <<"rising-star", "at-risk-newcomer", "reliability-challenged",
    "stabilizing">>

\* a - b over the keys of either record, squared and summed.  The code
\* returns Math.sqrt of this sum; Math.sqrt is increasing, so the sums
\* compare as the distances do
euclideanDistance(a, b) ==
  LET keys == DOMAIN a \cup DOMAIN b
      at(r, key) == IF key \in DOMAIN r THEN r[key] ELSE I(0)
      diff == [key \in keys |-> RSub(at(a, key), at(b, key))]
      RECURSIVE sumOver(_)
      sumOver(rest) ==
        IF rest = {} THEN I(0)
        ELSE LET key == CHOOSE k \in rest : TRUE
             IN  RAdd(RMul(diff[key], diff[key]), sumOver(rest \ {key}))
  IN  sumOver(keys)

normaliseVector(vector) ==
  [dropout_rate |-> OrElse(vector.features.dropout_rate, I(0)),
   first_session_dropout_rate |->
     OrElse(vector.features.first_session_dropout_rate, I(0)),
   tutor_initiated_reschedule_rate |->
     OrElse(vector.features.tutor_initiated_reschedule_rate, I(0)),
   no_show_rate |-> OrElse(vector.features.no_show_rate, I(0)),
   trend_velocity |->
     RDiv(OrElse(vector.features.trend_velocity, I(0)), I(100)),
   trend_slope |-> RDiv(OrElse(vector.features.trend_slope, I(0)), I(100)),
   score |-> RDiv(OrElse(vector.features.score, I(0)), I(100))]

personaToCentroid(persona) ==
  CASE persona = "rising-star" ->
         [dropout_rate |-> Q(5, 100),
          first_session_dropout_rate |-> Q(5, 100),
          tutor_initiated_reschedule_rate |-> Q(5, 100),
          no_show_rate |-> Q(3, 100),
          trend_velocity |-> Q(2, 10),
          trend_slope |-> Q(3, 10),
          score |-> Q(85, 100)]
    [] persona = "at-risk-newcomer" ->
         [dropout_rate |-> Q(2, 10),
          first_session_dropout_rate |-> Q(35, 100),
          tutor_initiated_reschedule_rate |-> Q(1, 10),
          no_show_rate |-> Q(5, 100),
          trend_velocity |-> Q(-15, 100),
          trend_slope |-> Q(-1, 10),
          score |-> Q(45, 100)]
    [] persona = "reliability-challenged" ->
         [dropout_rate |-> Q(25, 100),
          first_session_dropout_rate |-> Q(2, 10),
          tutor_initiated_reschedule_rate |-> Q(35, 100),
          no_show_rate |-> Q(2, 10),
          trend_velocity |-> Q(-5, 100),
          trend_slope |-> Q(-5, 100),
          score |-> Q(5, 10)]
    [] persona = "stabilizing" ->
         [dropout_rate |-> Q(12, 100),
          first_session_dropout_rate |-> Q(12, 100),
          tutor_initiated_reschedule_rate |-> Q(15, 100),
          no_show_rate |-> Q(8, 100),
          trend_velocity |-> Q(5, 100),
          trend_slope |-> Q(1, 10),
          score |-> Q(65, 100)]
    [] OTHER ->
         [dropout_rate |-> Q(15, 100),
          first_session_dropout_rate |-> Q(15, 100),
          tutor_initiated_reschedule_rate |-> Q(15, 100),
          no_show_rate |-> Q(1, 10),
          trend_velocity |-> I(0),
          trend_slope |-> I(0),
          score |-> Q(6, 10)]

\* let minDistance = Infinity
Infinity == <<1, 0>>

RECURSIVE closestFromLastWins(_, _, _, _)
\* the loop with <= for <
closestFromLastWins(featureVector, index, closest, minDistance) ==
  IF index > Len(PERSONA_LIBRARY) THEN closest
  ELSE Let(euclideanDistance(featureVector,
                             personaToCentroid(PERSONA_LIBRARY[index])),
           LAMBDA distance :
             IF minDistance = Infinity \/ RLe(distance, minDistance)
             THEN closestFromLastWins(featureVector, index + 1,
                                      PERSONA_LIBRARY[index], distance)
             ELSE closestFromLastWins(featureVector, index + 1, closest,
                                      minDistance))

RECURSIVE closestFrom(_, _, _, _)
\* the loop over PERSONA_LIBRARY from position index on
closestFrom(featureVector, index, closest, minDistance) ==
  IF index > Len(PERSONA_LIBRARY) THEN closest
  ELSE Let(euclideanDistance(featureVector,
                             personaToCentroid(PERSONA_LIBRARY[index])),
           LAMBDA distance :
             IF minDistance = Infinity \/ RLt(distance, minDistance)
             THEN closestFrom(featureVector, index + 1,
                              PERSONA_LIBRARY[index], distance)
             ELSE closestFrom(featureVector, index + 1, closest,
                              minDistance))

\* the id of the profile returned
assignPersona(vector) ==
  Let(normaliseVector(vector), LAMBDA featureVector :
    closestFrom(featureVector, 1, PERSONA_LIBRARY[1], Infinity))

(***************************************************************************)
(* IEEE-754 binary64, for the one product whose rounding decides an index. *)
(* A positive double is [sig, exp]: sig holds the bits of the significand, *)
(* most significant first, and exp is the power of two of its last bit.    *)
(***************************************************************************)
SignificandBits == 53

RECURSIVE NatBits(_)
\* a natural in binary, most significant bit first; no bit for 0
NatBits(n) == IF n = 0 THEN <<>> ELSE NatBits(n \div 2) \o <<n % 2>>

RECURSIVE BitsNat(_)
BitsNat(bits) ==
  IF bits = <<>> THEN 0
  ELSE 2 * BitsNat(SubSeq(bits, 1, Len(bits) - 1)) + bits[Len(bits)]

RECURSIVE QuotientBits(_, _, _)
\* the first count bits of r / d after the binary point, 0 <= r < d
QuotientBits(r, d, count) ==
  IF count = 0 THEN <<>>
  ELSE LET bit == IF 2 * r >= d THEN 1 ELSE 0
       IN  <<bit>> \o QuotientBits(2 * r - bit * d, d, count - 1)

RECURSIVE QuotientRest(_, _, _)
\* what is left of r after count bits of r / d
QuotientRest(r, d, count) ==
  IF count = 0 THEN r
  ELSE QuotientRest(2 * r - (IF 2 * r >= d THEN d ELSE 0), d, count - 1)

RECURSIVE LeadingZeros(_, _)
\* the zero bits after the binary point of r / d, 0 < r < d
LeadingZeros(r, d) == IF 2 * r >= d THEN 0 ELSE 1 + LeadingZeros(2 * r, d)

\* bits + 1; one bit longer when every bit is 1
Successor(bits) ==
  LET zeros == {i \in 1..Len(bits) : bits[i] = 0}
  IN  IF zeros = {} THEN <<1>> \o [i \in 1..Len(bits) |-> 0]
      ELSE LET last == CHOOSE i \in zeros : \A j \in zeros : j <= i
           IN  [i \in 1..Len(bits) |->
                  IF i < last THEN bits[i] ELSE IF i = last THEN 1 ELSE 0]

\* round to nearest, ties to even: bits starts with a 1 and its last bit
\* weighs 2^exp; sticky says that the exact value has more below the bits
RoundToDouble(bits, exp, sticky) ==
  IF Len(bits) <= SignificandBits
  THEN [sig |-> bits \o [i \in 1..(SignificandBits - Len(bits)) |-> 0],
        exp |-> exp - (SignificandBits - Len(bits))]
  ELSE LET kept == SubSeq(bits, 1, SignificandBits)
           guard == bits[SignificandBits + 1]
           below ==
             sticky \/ \E i \in (SignificandBits + 2)..Len(bits) : bits[i] = 1
           up == guard = 1 /\ (below \/ kept[SignificandBits] = 1)
           rounded == IF up THEN Successor(kept) ELSE kept
           shift == Len(bits) - SignificandBits
       IN  IF Len(rounded) > SignificandBits
           THEN [sig |-> SubSeq(rounded, 1, SignificandBits),
                 exp |-> exp + shift + 1]
           ELSE [sig |-> rounded, exp |-> exp + shift]

DoubleZero == [sig |-> [i \in 1..SignificandBits |-> 0], exp |-> 0]

\* a / b of two integers, 0 <= a < b
DoubleDivide(a, b) ==
  IF a = 0 THEN DoubleZero
  ELSE LET zeros == LeadingZeros(a, b)
           count == zeros + SignificandBits + 1
       IN  RoundToDouble(SubSeq(QuotientBits(a, b, count), zeros + 1, count),
                         -count, QuotientRest(a, b, count) # 0)

\* the bits in groups of ten, the last group holding the last ten bits
Limbs(bits) ==
  LET count == (Len(bits) + 9) \div 10
      padded == [i \in 1..(10 * count - Len(bits)) |-> 0] \o bits
  IN  [j \in 1..count |-> BitsNat(SubSeq(padded, 10 * j - 9, 10 * j))]

\* a natural below 1024 in ten bits
TenBits(n) ==
  LET bits == NatBits(n) IN [i \in 1..(10 - Len(bits)) |-> 0] \o bits

RECURSIVE TimesCarry(_, _, _, _)
\* the first i groups of limbs, times k, plus carry, in bits
TimesCarry(limbs, k, carry, i) ==
  IF i = 0 THEN NatBits(carry)
  ELSE LET t == limbs[i] * k + carry
       IN  TimesCarry(limbs, k, t \div 1024, i - 1) \o TenBits(t % 1024)

\* bits without the zeros in front
Significant(bits) ==
  LET ones == {i \in 1..Len(bits) : bits[i] = 1}
  IN  IF ones = {} THEN <<>>
      ELSE SubSeq(bits, CHOOSE i \in ones : \A j \in ones : i <= j,
                  Len(bits))

\* x * k for a natural k below 2^20
DoubleTimes(x, k) ==
  IF k = 0 \/ x = DoubleZero THEN DoubleZero
  ELSE Let(Limbs(x.sig), LAMBDA limbs :
         RoundToDouble(Significant(TimesCarry(limbs, k, 0, Len(limbs))),
                       x.exp, FALSE))

\* Math.floor of a double below 2^31
DoubleFloor(x) ==
  IF x.exp <= -SignificandBits THEN 0
  ELSE BitsNat(SubSeq(x.sig, 1, SignificandBits + x.exp))

(***************************************************************************)
(* Threshold optimizer (lib/ai/threshold_optimizer.ts).                    *)
(***************************************************************************)
\* (percentileValue / 100) * (sorted.length - 1) is a product of doubles;
\* its floor is the 0-based index into the sorted copy
percentile(values, percentileValue) ==
  IF Len(values) = 0 THEN I(0)
  ELSE LET sorted == StableSort(values, RLt)
           index ==
             DoubleFloor(DoubleTimes(DoubleDivide(percentileValue, 100),
                                     Len(sorted) - 1))
       IN  sorted[index + 1]

computeDynamicThresholds(vectors) ==
  LET scores ==
        [i \in 1..Len(vectors) |-> OrElse(vectors[i].features.score, I(0))]
      dropoutRates ==
        [i \in 1..Len(vectors) |->
           OrElse(vectors[i].features.dropout_rate, I(0))]
      noShowRates ==
        [i \in 1..Len(vectors) |->
           OrElse(vectors[i].features.no_show_rate, I(0))]
  IN  [scoreThreshold |-> MathRound(percentile(scores, 35)),
       dropoutRateThreshold |->
         toFixed(RMul(percentile(dropoutRates, 70), I(100)), 1),
       noShowRateThreshold |->
         toFixed(RMul(percentile(noShowRates, 70), I(100)), 1)]

(***************************************************************************)
(* Orchestrator (lib/ai/ai_orchestrator.ts).                               *)
(***************************************************************************)
\* tutors.find((tutor) => tutor.tutor_id === vector.tutorId): the position of
\* the first match, 0 when there is none
findTutor(tutors, tutorId) ==
  LET hits == {i \in 1..Len(tutors) : tutors[i].tutor_id = tutorId}
  IN  IF hits = {} THEN 0 ELSE CHOOSE i \in hits : \A j \in hits : i <= j

\* the body of the loop over matrix.vectors
insightFor(vector, matrix, thresholds, matchedTutor) ==
  Let(detectAnomaly(vector, matrix), LAMBDA anomaly :
  Let(forecastTrend(matchedTutor.trend_7d, matchedTutor.score),
      LAMBDA forecast :
  Let(recommendInterventions(vector,
                             [anomalyScore |-> anomaly.score,
                              forecastTrajectory |-> forecast.trajectory]),
      LAMBDA interventions :
      [modelVersion |-> "ai.v1",
       anomalyScore |-> anomaly.score,
       forecast |-> forecast,
       interventions |-> interventions,
       thresholdRecommendation |-> thresholds])))

\* a mutation of generateAiInsights: a tutor with no sessions gets no bundle
generateAiInsightsSkipsIdle(tutors) ==
  Let(buildFeatureMatrix(tutors), LAMBDA matrix :
  Let(computeDynamicThresholds(matrix.vectors), LAMBDA thresholds :
      LET Matched(i) ==
            /\ findTutor(tutors, matrix.vectors[i].tutorId) # 0
            /\ tutors[i].kpis.sessions_count > 0
          kept == {i \in 1..Len(matrix.vectors) : Matched(i)}
          Last(id) ==
            CHOOSE i \in kept :
              /\ matrix.vectors[i].tutorId = id
              /\ \A j \in kept : matrix.vectors[j].tutorId = id => j <= i
      IN  [insights |->
             [id \in {matrix.vectors[i].tutorId : i \in kept} |->
                insightFor(matrix.vectors[Last(id)], matrix, thresholds,
                           tutors[findTutor(tutors, id)])],
           thresholdSummary |-> thresholds]))

\* the Map is keyed by tutorId: a later vector with the same id overwrites
generateAiInsights(tutors) ==
  Let(buildFeatureMatrix(tutors), LAMBDA matrix :
  Let(computeDynamicThresholds(matrix.vectors), LAMBDA thresholds :
      LET Matched(i) == findTutor(tutors, matrix.vectors[i].tutorId) # 0
          kept == {i \in 1..Len(matrix.vectors) : Matched(i)}
          Last(id) ==
            CHOOSE i \in kept :
              /\ matrix.vectors[i].tutorId = id
              /\ \A j \in kept : matrix.vectors[j].tutorId = id => j <= i
      IN  [insights |->
             [id \in {matrix.vectors[i].tutorId : i \in kept} |->
                insightFor(matrix.vectors[Last(id)], matrix, thresholds,
                           tutors[findTutor(tutors, id)])],
           thresholdSummary |-> thresholds]))

(***************************************************************************)
(* At-risk selection (scripts/score_tutors.ts).                            *)
(***************************************************************************)
\* tutors is tutorOutputs, sorted by score and then id.  0.2 as a double is
\* not below 1/5, so Math.floor(tutors.length * 0.2) is the integer quotient
\* a mutation of selectAtRiskTutors: the list is not capped
selectAtRiskTutorsUncapped(tutors) ==
  IF Len(tutors) = 0 THEN <<>>
  ELSE
    LET below60 == SelectSeq(tutors, LAMBDA tutor : tutor.score < 60)
        fifth == Len(tutors) \div 5
        bottomCount == IF 1 > fifth THEN 1 ELSE fifth
        bottom20 == SubSeq(tutors, 1, bottomCount)
    IN  StableSort(IF Len(below60) <= Len(bottom20) THEN below60
                   ELSE bottom20,
                   OutputBefore)

\* a mutation of selectAtRiskTutors: the fifth is taken from the end of the
\* ranking
selectAtRiskTutorsFromTop(tutors) ==
  IF Len(tutors) = 0 THEN <<>>
  ELSE
    LET below60 == SelectSeq(tutors, LAMBDA tutor : tutor.score < 60)
        fifth == Len(tutors) \div 5
        bottomCount == IF 1 > fifth THEN 1 ELSE fifth
        bottom20 == SubSeq(tutors, Len(tutors) - bottomCount + 1, Len(tutors))
        ordered ==
          StableSort(IF Len(below60) < Len(bottom20) THEN below60
                     ELSE bottom20,
                     OutputBefore)
    IN  SubSeq(ordered, 1, IF Len(ordered) < 50 THEN Len(ordered) ELSE 50)

selectAtRiskTutors(tutors) ==
  IF Len(tutors) = 0 THEN <<>>
  ELSE
    LET below60 == SelectSeq(tutors, LAMBDA tutor : tutor.score < 60)
        fifth == Len(tutors) \div 5
        bottomCount == IF 1 > fifth THEN 1 ELSE fifth
        bottom20 == SubSeq(tutors, 1, bottomCount)
        belowMin ==
          IF Len(below60) > 0 THEN I(below60[1].score) ELSE Infinity
        bottomMin ==
          IF Len(bottom20) > 0 THEN I(bottom20[1].score) ELSE Infinity
        selected ==
          IF Len(below60) < Len(bottom20) THEN below60
          ELSE IF Len(bottom20) < Len(below60) THEN bottom20
          ELSE IF bottomMin = Infinity
                  \/ (belowMin # Infinity /\ RLe(belowMin, bottomMin))
               THEN below60 ELSE bottom20
        ordered == StableSort(selected, OutputBefore)
    IN  SubSeq(ordered, 1, IF Len(ordered) < 50 THEN Len(ordered) ELSE 50)

(***************************************************************************)
(* The inputs of the model: validated rows of sessions.csv.                *)
(***************************************************************************)
Session(date, rating, status, tech, first, initiator, noShow) ==
  [date |-> date, rating |-> rating, status |-> status,
   hasTechIssue |-> tech, isFirstSession |-> first,
   rescheduleInitiator |-> initiator, noShow |-> noShow]

kGood(d) == Session(d, I(5), "completed", FALSE, FALSE, "null", FALSE)

kUnrated(d) == Session(d, NULL, "completed", FALSE, FALSE, "null", FALSE)

kPoorFirst(d) == Session(d, I(2), "completed", TRUE, TRUE, "null", FALSE)

kPoorNoShow(d) == Session(d, I(1), "completed", FALSE, FALSE, "null", TRUE)

kPoorFirstNoShow(d) == Session(d, I(1), "completed", FALSE, TRUE, "null", TRUE)

kFirstDropout(d) == Session(d, I(1), "dropout", FALSE, TRUE, "null", TRUE)

kTutorResched(d) == Session(d, NULL, "rescheduled", FALSE, FALSE, "tutor", TRUE)

kStudentResched(d) ==
  Session(d, NULL, "rescheduled", FALSE, FALSE, "student", TRUE)

\* the rows a batch is loaded from
BatchSessions ==
  {kGood(1), kGood(7), kUnrated(7), kPoorFirst(7), kFirstDropout(1),
   kFirstDropout(7), kTutorResched(7), kStudentResched(7)}

\* the kinds of session of the single tutor of SpecTutor, each taken 0..MaxRep
\* times
TutorKinds ==
  <<kGood(1), kTutorResched(7), kStudentResched(7), kPoorNoShow(7),
    kPoorFirstNoShow(7), kFirstDropout(7), kPoorFirst(4)>>

RECURSIVE Repeat(_, _)
Repeat(x, n) == IF n = 0 THEN <<>> ELSE <<x>> \o Repeat(x, n - 1)

RECURSIVE Blocks(_, _)
Blocks(counts, k) ==
  IF k = 0 THEN <<>>
  ELSE Blocks(counts, k - 1) \o Repeat(TutorKinds[k], counts[k])

RECURSIVE MaxDate(_)
MaxDate(sessions) ==
  IF sessions = <<>> THEN NoDate
  ELSE LET rest == MaxDate(Tail(sessions))
       IN  IF sessions[1].date > rest THEN sessions[1].date ELSE rest

(***************************************************************************)
(* The pipeline as a state machine (runScoringPipeline).                   *)
(***************************************************************************)
VARIABLES
  pc,                \* the step the pipeline is at
  formulaVersion,    \* "v1" or "v2"
  tutorIds,          \* the keys of tutorMap, in insertion order
  sessionsByTutor,   \* tutor id -> the tutor's sessions, in file order
  totalSessions,
  latestSessionDate,
  metricsOf,         \* tutor id -> the loop's local metrics
  churnRiskOf,       \* tutor id -> the loop's local churnRisk
  tutorOutputs,      \* the scored tutors, sorted by score, then id
  featureVectors,    \* matrix.vectors of the orchestrator's run
  aiInsights,        \* tutor id -> insight bundle
  thresholdSummary,
  trendCall,         \* the arguments of a call of buildTrendForTutor
  trendResult,       \* what the call returned
  unitCall,          \* the arguments of a call of one function taken alone
  unitResult,        \* what that call returned
  secret,            \* process.env.RECOMPUTE_SECRET
  files,             \* file name -> inode of the file, 0 when there is none
  inodes,            \* inode -> the pieces the file holds
  runs,              \* the invocations of runScoringPipeline
  scoresRequest,     \* a GET /api/scores
  explain            \* a call of generateExplanationsForAll

vars ==
  <<pc, formulaVersion, tutorIds, sessionsByTutor, totalSessions,
    latestSessionDate, metricsOf, churnRiskOf, tutorOutputs, featureVectors,
    aiInsights, thresholdSummary, trendCall, trendResult, unitCall,
    unitResult, secret, files, inodes, runs, scoresRequest, explain>>

NoCall == [called |-> FALSE]

\* generateExplanationsForAll is not running
NotExplaining == [pc |-> "idle"]

\* OUTPUT_PATH and EXPLANATIONS_PATH, without the directory
OUTPUT_PATH == "scores.json"

EXPLANATIONS_PATH == "explanations.json"

\* `${filePath}.tmp`
tempPath(filePath) == filePath \o ".tmp"

Paths ==
  {OUTPUT_PATH, EXPLANATIONS_PATH, tempPath(OUTPUT_PATH),
   tempPath(EXPLANATIONS_PATH)}

\* the inodes of the file system that holds the four files
MaxInodes == 6

\* the invocations of runScoringPipeline that may overlap
Runs == {1, 2}

\* an environment variable that is not set
Unset == [set |-> FALSE, value |-> <<>>]

NoResponse == [status |-> 0, success |-> "absent"]

NoRun ==
  [pc |-> "idle", header |-> <<>>, started |-> FALSE, batch |-> <<>>,
   writing |-> 0, fd |-> 0, response |-> NoResponse]

\* what a file that could not be read or parsed yields
NoData == [of |-> 0, tutors |-> <<>>]

NotRead == [read |-> FALSE, ok |-> FALSE, value |-> NoData]

NoRequest ==
  [pc |-> "idle", scores |-> NotRead, explanations |-> NotRead,
   response |-> [status |-> 0, generated_at |-> 0, tutors |-> <<>>]]

\* no request, no invocation, no file
ServiceAtRest ==
  /\ secret = Unset
  /\ files = [filePath \in Paths |-> 0]
  /\ inodes = [i \in 1..MaxInodes |-> <<>>]
  /\ runs = [r \in Runs |-> NoRun]
  /\ scoresRequest = NoRequest

Init ==
  /\ pc = "loadTutors"
  /\ formulaVersion \in {"v1", "v2"}
  /\ tutorIds = <<>>
  /\ sessionsByTutor = <<>>
  /\ totalSessions = 0
  /\ latestSessionDate = NoDate
  /\ metricsOf = <<>>
  /\ churnRiskOf = <<>>
  /\ tutorOutputs = <<>>
  /\ featureVectors = <<>>
  /\ aiInsights = <<>>
  /\ thresholdSummary = NULL
  /\ trendCall = NoCall
  /\ trendResult = <<>>
  /\ unitCall = NoCall
  /\ unitResult = NULL
  /\ ServiceAtRest
  /\ explain = NotExplaining

\* loadTutors: one valid row; tutorMap.set(tutorId, ...)
LoadTutor ==
  /\ pc = "loadTutors"
  /\ Len(tutorIds) < MaxTutors
  /\ tutorIds' = Append(tutorIds, Len(tutorIds) + 1)
  /\ UNCHANGED <<pc, formulaVersion, sessionsByTutor, totalSessions,
                 latestSessionDate, metricsOf, churnRiskOf, tutorOutputs,
                 featureVectors, aiInsights, thresholdSummary, trendCall,
                 trendResult, unitCall, unitResult, secret, files, inodes,
                 runs, scoresRequest, explain>>

\* loadTutors returns; a tutor without rows has the empty list (?? [])
TutorsLoaded ==
  /\ pc = "loadTutors"
  /\ pc' = "loadSessions"
  /\ sessionsByTutor' = [t \in 1..Len(tutorIds) |-> <<>>]
  /\ UNCHANGED <<formulaVersion, tutorIds, totalSessions, latestSessionDate,
                 metricsOf, churnRiskOf, tutorOutputs, featureVectors,
                 aiInsights, thresholdSummary, trendCall, trendResult,
                 unitCall, unitResult, secret, files, inodes, runs,
                 scoresRequest, explain>>

\* loadSessions: one valid row of a known tutor
LoadSession(t, session) ==
  /\ pc = "loadSessions"
  /\ totalSessions < MaxSessions
  /\ sessionsByTutor' =
       [sessionsByTutor EXCEPT ![t] = Append(sessionsByTutor[t], session)]
  /\ totalSessions' = totalSessions + 1
  /\ latestSessionDate' =
       IF latestSessionDate = NoDate \/ session.date > latestSessionDate
       THEN session.date ELSE latestSessionDate
  /\ UNCHANGED <<pc, formulaVersion, tutorIds, metricsOf, churnRiskOf,
                 tutorOutputs, featureVectors, aiInsights, thresholdSummary,
                 trendCall, trendResult, unitCall, unitResult, secret, files,
                 inodes, runs, scoresRequest, explain>>

SessionsLoaded ==
  /\ pc = "loadSessions"
  /\ pc' = "score"
  /\ UNCHANGED <<formulaVersion, tutorIds, sessionsByTutor, totalSessions,
                 latestSessionDate, metricsOf, churnRiskOf, tutorOutputs,
                 featureVectors, aiInsights, thresholdSummary, trendCall,
                 trendResult, unitCall, unitResult, secret, files, inodes,
                 runs, scoresRequest, explain>>

\* the scoring loop over tutorMap.values() and the sort that follows it
ScoreTutors ==
  /\ pc = "score"
  /\ LET trendDates == buildTrendDates(latestSessionDate)
     IN  \E scored \in
              {[i \in 1..Len(tutorIds) |->
                  scoreTutor(tutorIds[i], sessionsByTutor[tutorIds[i]],
                             trendDates, formulaVersion)]} :
           /\ metricsOf' = [i \in 1..Len(tutorIds) |-> scored[i].metrics]
           /\ churnRiskOf' = [i \in 1..Len(tutorIds) |-> scored[i].churnRisk]
           /\ tutorOutputs' =
                StableSort([i \in 1..Len(tutorIds) |-> scored[i].output],
                           OutputBefore)
  /\ pc' = "ai"
  /\ UNCHANGED <<formulaVersion, tutorIds, sessionsByTutor, totalSessions,
                 latestSessionDate, featureVectors, aiInsights,
                 thresholdSummary, trendCall, trendResult, unitCall,
                 unitResult, secret, files, inodes, runs, scoresRequest, explain>>

\* generateAiInsights(featureInputs); featureVectors keeps the vectors of the
\* matrix the call builds first
GenerateAiInsights ==
  /\ pc = "ai"
  /\ \E result \in {generateAiInsights(tutorOutputs)} :
       /\ aiInsights' = result.insights
       /\ thresholdSummary' = result.thresholdSummary
  /\ featureVectors' = buildFeatureMatrix(tutorOutputs).vectors
  /\ pc' = "done"
  /\ UNCHANGED <<formulaVersion, tutorIds, sessionsByTutor, totalSessions,
                 latestSessionDate, metricsOf, churnRiskOf, tutorOutputs,
                 trendCall, trendResult, unitCall, unitResult, secret, files,
                 inodes, runs, scoresRequest, explain>>

Next ==
  \/ LoadTutor
  \/ TutorsLoaded
  \/ \E t \in 1..Len(tutorIds), session \in BatchSessions :
       LoadSession(t, session)
  \/ SessionsLoaded
  \/ ScoreTutors
  \/ GenerateAiInsights

Spec == Init /\ [][Next]_vars

(***************************************************************************)
(* One tutor with a longer history: the sessions are loaded already.       *)
(***************************************************************************)
InitTutor ==
  /\ pc = "score"
  /\ formulaVersion \in {"v1", "v2"}
  /\ tutorIds = <<1>>
  /\ \E counts \in [1..Len(TutorKinds) -> 0..MaxRep] :
       /\ sessionsByTutor = <<Blocks(counts, Len(TutorKinds))>>
       /\ totalSessions = Len(Blocks(counts, Len(TutorKinds)))
       /\ latestSessionDate = MaxDate(Blocks(counts, Len(TutorKinds)))
  /\ metricsOf = <<>>
  /\ churnRiskOf = <<>>
  /\ tutorOutputs = <<>>
  /\ featureVectors = <<>>
  /\ aiInsights = <<>>
  /\ thresholdSummary = NULL
  /\ trendCall = NoCall
  /\ trendResult = <<>>
  /\ unitCall = NoCall
  /\ unitResult = NULL
  /\ ServiceAtRest
  /\ explain = NotExplaining

NextTutor == ScoreTutors \/ GenerateAiInsights

SpecTutor == InitTutor /\ [][NextTutor]_vars

(***************************************************************************)
(* buildTrendForTutor on any list of dates.                                *)
(***************************************************************************)
\* sessions on the first days
TrendSessions ==
  {kGood(1), kGood(2), kPoorFirst(2), kFirstDropout(1), kFirstDropout(3),
   kTutorResched(3)}

TrendHistories ==
  {<<>>} \cup {<<a>> : a \in TrendSessions}
  \cup {<<a, b>> : a \in TrendSessions, b \in TrendSessions}

InitTrend ==
  /\ pc = "trend"
  /\ formulaVersion \in {"v1", "v2"}
  /\ tutorIds = <<>>
  /\ sessionsByTutor = <<>>
  /\ totalSessions = 0
  /\ latestSessionDate = NoDate
  /\ metricsOf = <<>>
  /\ churnRiskOf = <<>>
  /\ tutorOutputs = <<>>
  /\ featureVectors = <<>>
  /\ aiInsights = <<>>
  /\ thresholdSummary = NULL
  /\ \E sessions \in TrendHistories, n \in 0..MaxDates :
       trendCall =
         [called |-> FALSE, sessions |-> sessions,
          dates |-> [i \in 1..n |-> i],
          fallbackScore |->
            computeScore(computeMetrics(sessions), formulaVersion)]
  /\ trendResult = <<>>
  /\ unitCall = NoCall
  /\ unitResult = NULL
  /\ ServiceAtRest
  /\ explain = NotExplaining

CallBuildTrend ==
  /\ pc = "trend"
  /\ ~trendCall.called
  /\ trendResult' =
       buildTrendForTutor(trendCall.sessions, trendCall.dates,
                          trendCall.fallbackScore, formulaVersion)
  /\ trendCall' = [trendCall EXCEPT !.called = TRUE]
  /\ UNCHANGED <<pc, formulaVersion, tutorIds, sessionsByTutor, totalSessions,
                 latestSessionDate, metricsOf, churnRiskOf, tutorOutputs,
                 featureVectors, aiInsights, thresholdSummary, unitCall,
                 unitResult, secret, files, inodes, runs, scoresRequest, explain>>

NextTrend == CallBuildTrend

SpecTrend == InitTrend /\ [][NextTrend]_vars

(***************************************************************************)
(* One function taken alone: the arguments are drawn by the initial state  *)
(* and one action applies the function to them.                            *)
(***************************************************************************)
\* every variable of the pipeline at rest, pc naming what runs instead
PipelineAtRest(fn) ==
  /\ pc = fn
  /\ tutorIds = <<>>
  /\ sessionsByTutor = <<>>
  /\ totalSessions = 0
  /\ latestSessionDate = NoDate
  /\ metricsOf = <<>>
  /\ churnRiskOf = <<>>
  /\ tutorOutputs = <<>>
  /\ featureVectors = <<>>
  /\ aiInsights = <<>>
  /\ thresholdSummary = NULL
  /\ trendCall = NoCall
  /\ trendResult = <<>>
  /\ explain = NotExplaining

Idle(fn) ==
  /\ PipelineAtRest(fn)
  /\ unitResult = NULL
  /\ ServiceAtRest

\* the call returns: nothing but its result changes
Returns(fn, value) ==
  /\ pc = fn
  /\ ~unitCall.called
  /\ unitResult' = value
  /\ unitCall' = [unitCall EXCEPT !.called = TRUE]
  /\ UNCHANGED <<pc, formulaVersion, tutorIds, sessionsByTutor, totalSessions,
                 latestSessionDate, metricsOf, churnRiskOf, tutorOutputs,
                 featureVectors, aiInsights, thresholdSummary, trendCall,
                 trendResult, secret, files, inodes, runs, scoresRequest, explain>>

\* all the sequences over a set of at most n elements
SeqUpTo(S, n) == UNION {[1..k -> S] : k \in 0..n}

(***************************************************************************)
(* computeDynamicThresholds on any list of vectors.                        *)
(***************************************************************************)
\* longest list of vectors drawn freely
MaxVectors == 4

\* the three features the optimizer reads
ThresholdFeatures ==
  {[score |-> I(90), dropout_rate |-> I(0), no_show_rate |-> Q(1, 5)],
   [score |-> Q(111, 2), dropout_rate |-> Q(1, 4), no_show_rate |-> I(0)],
   [score |-> I(40), dropout_rate |-> Q(1, 10), no_show_rate |-> Q(1, 20)],
   [score |-> I(72), dropout_rate |-> Q(1, 3), no_show_rate |-> Q(1, 20)],
   [score |-> I(72), dropout_rate |-> Q(1, 10), no_show_rate |-> Q(1, 8)]}

\* a batch of 91 tutors, every score and every rate different
LargeBatch ==
  [i \in 1..91 |->
     [score |-> I(5 + ((37 * i) % 91)),
      dropout_rate |-> Q((17 * i) % 91, 100),
      no_show_rate |-> Q((29 * i) % 91, 200)]]

InitThresholds ==
  /\ Idle("computeDynamicThresholds")
  /\ formulaVersion = "v2"
  /\ \E features \in SeqUpTo(ThresholdFeatures, MaxVectors) \cup {LargeBatch} :
       unitCall =
         [called |-> FALSE,
          vectors |->
            [i \in 1..Len(features) |->
               [tutorId |-> i, features |-> features[i]]]]

CallComputeDynamicThresholds ==
  \E thresholds \in {computeDynamicThresholds(unitCall.vectors)} :
    Returns("computeDynamicThresholds", thresholds)

NextThresholds == CallComputeDynamicThresholds

SpecThresholds == InitThresholds /\ [][NextThresholds]_vars

(***************************************************************************)
(* forecastTrend on any trend.                                             *)
(***************************************************************************)
\* longest trend drawn freely
MaxTrend == 3

TrendValues == {0, 1, 50, 100}

\* a week that falls from 90 to 15
FallingWeek == <<90, 85, 40, 35, 30, 20, 15>>

\* a week at 80
FlatWeek == [i \in 1..TrendDays |-> 80]

InitForecast ==
  /\ Idle("forecastTrend")
  /\ formulaVersion = "v2"
  /\ \E trend \in SeqUpTo(TrendValues, MaxTrend) \cup {FallingWeek, FlatWeek} :
       unitCall =
         [called |-> FALSE, trend |-> trend,
          currentScore |-> IF trend = <<>> THEN 100 ELSE trend[Len(trend)]]

CallForecastTrend ==
  \E forecast \in {forecastTrend(unitCall.trend, unitCall.currentScore)} :
    Returns("forecastTrend", forecast)

NextForecast == CallForecastTrend

SpecForecast == InitForecast /\ [][NextForecast]_vars

(***************************************************************************)
(* assignPersona on any feature vector.                                    *)
(***************************************************************************)
\* halfway between the centroids of rising-star and stabilizing
BetweenTwoPersonas ==
  [dropout_rate |-> Q(85, 1000), first_session_dropout_rate |-> Q(85, 1000),
   tutor_initiated_reschedule_rate |-> Q(1, 10),
   no_show_rate |-> Q(55, 1000), trend_velocity |-> Q(25, 2),
   trend_slope |-> I(20), score |-> I(75), avg_rating |-> I(5)]

PersonaFeatures ==
  [dropout_rate : {I(0), Q(1, 5)},
   first_session_dropout_rate : {I(0), Q(7, 20)},
   tutor_initiated_reschedule_rate : {I(0), Q(7, 20)},
   no_show_rate : {I(0), Q(1, 5)},
   trend_velocity : {I(-15), I(20)},
   trend_slope : {I(-10), I(30)},
   score : {I(45), I(85)},
   avg_rating : {I(1), I(5)}]
  \cup {BetweenTwoPersonas}

InitPersona ==
  /\ Idle("assignPersona")
  /\ formulaVersion = "v2"
  /\ \E features \in PersonaFeatures :
       unitCall =
         [called |-> FALSE,
          vector |-> [tutorId |-> 1, features |-> features]]

CallAssignPersona ==
  \E persona \in {assignPersona(unitCall.vector)} :
    Returns("assignPersona", persona)

NextPersona == CallAssignPersona

SpecPersona == InitPersona /\ [][NextPersona]_vars

(***************************************************************************)
(* computeScoreV1 on any metrics of a history of 20 sessions.              *)
(***************************************************************************)
ScoreMetrics ==
  [avgRating : {NULL, I(1), I(3), I(5)},
   dropoutRate : {I(0), Q(3, 10), I(1)},
   techIssueRate : {I(0), Q(1, 20), Q(1, 10), I(1)},
   rescheduleRate : {I(0), Q(1, 20), I(1)},
   sessionsCount : {20},
   firstSessionAvgRating : {NULL, I(1)},
   firstSessionDropoutRate : {I(0), I(1)},
   firstSessionCount : {1},
   tutorInitiatedRescheduleRate : {I(0), I(1)},
   tutorInitiatedRescheduleCount : {0},
   noShowRate : {I(0), I(1)},
   noShowCount : {0}]

InitScoreV1 ==
  /\ Idle("computeScoreV1")
  /\ formulaVersion = "v1"
  /\ \E metrics \in ScoreMetrics :
       unitCall = [called |-> FALSE, metrics |-> metrics]

CallComputeScoreV1 ==
  \E score \in {computeScore(unitCall.metrics, formulaVersion)} :
    Returns("computeScoreV1", score)

NextScoreV1 == CallComputeScoreV1

SpecScoreV1 == InitScoreV1 /\ [][NextScoreV1]_vars

(***************************************************************************)
(* selectAtRiskTutors on any ranking.                                      *)
(***************************************************************************)
\* most tutors in a ranking
MaxRanked == 10

RankScores == <<40, 59, 60, 80>>

\* the ranking with counts[j] tutors at the j-th score, ids in rank order
Ranking(counts) ==
  LET UpTo(j) == ISum([i \in 1..j |-> counts[i]])
  IN  [k \in 1..UpTo(Len(RankScores)) |->
         [tutor_id |-> k,
          score |->
            RankScores[CHOOSE j \in 1..Len(RankScores) :
                         UpTo(j - 1) < k /\ k <= UpTo(j)]]]

\* a batch of 300 tutors, 100 of them below 60: more than 50 tutors in the
\* bottom 20%
LargeRanking == <<100, 0, 0, 200>>

InitAtRisk ==
  /\ Idle("selectAtRiskTutors")
  /\ formulaVersion = "v2"
  /\ \E counts \in
          {c \in [1..Len(RankScores) -> 0..MaxRanked] : ISum(c) <= MaxRanked}
          \cup {LargeRanking} :
       unitCall = [called |-> FALSE, tutors |-> Ranking(counts)]

CallSelectAtRiskTutors ==
  \E atRiskTutors \in {selectAtRiskTutors(unitCall.tutors)} :
    Returns("selectAtRiskTutors", atRiskTutors)

NextAtRisk == CallSelectAtRiskTutors

SpecAtRisk == InitAtRisk /\ [][NextAtRisk]_vars

(***************************************************************************)
(* The service: POST /api/recompute, the two files runScoringPipeline      *)
(* writes, and GET /api/scores.  A file is a name bound to an inode; what  *)
(* an inode holds is the sequence of pieces written to it, a piece being   *)
(* one part of JSON.stringify of some data.  The data of an invocation is  *)
(* kept to its tutors (tutor ids, in output order) and the invocation it   *)
(* comes from, which stands for generated_at, the scores and the texts.    *)
(***************************************************************************)
\* JSON.stringify(data, null, 2) + "\n", written for the file filePath: one
\* piece and one more for every tutor
Serialized(filePath, data) ==
  [k \in 1..(1 + Len(data.tutors)) |->
     [path |-> filePath, data |-> data, piece |-> k]]

\* the content with its end missing
Truncated(filePath, data) ==
  SubSeq(Serialized(filePath, data), 1, Len(data.tutors))

\* readJson without the mark of having been read: fs.readFile rejects when
\* no file has the name, JSON.parse throws unless the pieces are one whole
\* serialisation
readFileAndParse(filePath) ==
  IF files[filePath] = 0 THEN [ok |-> FALSE, value |-> NoData]
  ELSE LET raw == inodes[files[filePath]]
       IN  IF raw # <<>> /\ raw = Serialized(raw[1].path, raw[1].data)
           THEN [ok |-> TRUE, value |-> raw[1].data]
           ELSE [ok |-> FALSE, value |-> NoData]

readJson(filePath) ==
  LET parsed == readFileAndParse(filePath)
  IN  [read |-> TRUE, ok |-> parsed.ok, value |-> parsed.value]

\* a rejection of the read of explanations.json is passed on
catchNothing(result) == result

\* .catch(() => ({}))
catchAsEmpty(result) ==
  IF result.ok THEN result ELSE [read |-> TRUE, ok |-> TRUE, value |-> NoData]

\* the body of GET after Promise.all: the catch block answers 503
scoresResponse(scores, explanations) ==
  IF ~scores.ok \/ ~explanations.ok
  THEN [status |-> 503, generated_at |-> 0, tutors |-> <<>>]
  ELSE [status |-> 200,
        generated_at |-> scores.value.of,
        tutors |->
          [i \in 1..Len(scores.value.tutors) |->
             [tutor_id |-> scores.value.tutors[i],
              explanation |->
                IF scores.value.tutors[i] \in Range(explanations.value.tutors)
                THEN explanations.value.of ELSE 0]]]

ReadScores ==
  /\ scoresRequest.pc = "reading"
  /\ ~scoresRequest.scores.read
  /\ scoresRequest' = [scoresRequest EXCEPT !.scores = readJson(OUTPUT_PATH)]
  /\ UNCHANGED <<pc, formulaVersion, tutorIds, sessionsByTutor, totalSessions,
                 latestSessionDate, metricsOf, churnRiskOf, tutorOutputs,
                 featureVectors, aiInsights, thresholdSummary, trendCall,
                 trendResult, unitCall, unitResult, secret, files, inodes,
                 runs, explain>>

ReadExplanations ==
  /\ scoresRequest.pc = "reading"
  /\ ~scoresRequest.explanations.read
  /\ scoresRequest' =
       [scoresRequest EXCEPT
          !.explanations = catchAsEmpty(readJson(EXPLANATIONS_PATH))]
  /\ UNCHANGED <<pc, formulaVersion, tutorIds, sessionsByTutor, totalSessions,
                 latestSessionDate, metricsOf, churnRiskOf, tutorOutputs,
                 featureVectors, aiInsights, thresholdSummary, trendCall,
                 trendResult, unitCall, unitResult, secret, files, inodes,
                 runs, explain>>

\* Promise.all settles: with both values, or as soon as the read of
\* scores.json rejects (the other promise never rejects, it has its catch)
RespondScores ==
  /\ scoresRequest.pc = "reading"
  /\ scoresRequest.scores.read
  /\ scoresRequest.explanations.read \/ ~scoresRequest.scores.ok
  /\ scoresRequest' =
       [scoresRequest EXCEPT
          !.pc = "responded",
          !.response =
            scoresResponse(scoresRequest.scores, scoresRequest.explanations)]
  /\ UNCHANGED <<pc, formulaVersion, tutorIds, sessionsByTutor, totalSessions,
                 latestSessionDate, metricsOf, churnRiskOf, tutorOutputs,
                 featureVectors, aiInsights, thresholdSummary, trendCall,
                 trendResult, unitCall, unitResult, secret, files, inodes,
                 runs, explain>>

\* the characters of "Bearer "
Bearer == <<"B", "e", "a", "r", "e", "r", " ">>

startsWith(s, prefix) ==
  Len(s) >= Len(prefix) /\ SubSeq(s, 1, Len(prefix)) = prefix

slice(s, start) == SubSeq(s, start + 1, Len(s))

trim(s) ==
  LET solid == {i \in 1..Len(s) : s[i] # " "}
  IN  IF solid = {} THEN <<>>
      ELSE SubSeq(s, CHOOSE i \in solid : \A j \in solid : i <= j,
                  CHOOSE i \in solid : \A j \in solid : j <= i)

\* any Bearer header passes
gateAnyBearer(authHeader, env) ==
  IF ~env.set \/ env.value = <<>> THEN 500
  ELSE IF ~startsWith(authHeader, Bearer) THEN 401
  ELSE 0

\* POST up to the call of the pipeline: the status it answers with, or 0
\* when it goes on to call runScoringPipeline
gate(authHeader, env) ==
  IF ~env.set \/ env.value = <<>> THEN 500
  ELSE IF ~startsWith(authHeader, Bearer) THEN 401
  ELSE IF trim(slice(authHeader, Len(Bearer))) # env.value THEN 401
  ELSE 0

\* the pipeline variables and the scores request, which no step of an
\* invocation touches
UnchangedByRuns ==
  UNCHANGED <<pc, formulaVersion, tutorIds, sessionsByTutor, totalSessions,
              latestSessionDate, metricsOf, churnRiskOf, tutorOutputs,
              featureVectors, aiInsights, thresholdSummary, trendCall,
              trendResult, unitCall, unitResult, secret, scoresRequest, explain>>

\* POST /api/recompute arrives with its Authorization header ("" for none)
Post(r, authHeader) ==
  /\ runs[r].pc = "idle"
  /\ \E status \in {gate(authHeader, secret)} :
       runs' =
         [runs EXCEPT
            ![r] =
              IF status = 0
              THEN [@ EXCEPT !.pc = "load", !.header = authHeader,
                             !.started = TRUE]
              ELSE [@ EXCEPT
                      !.pc = "responded", !.header = authHeader,
                      !.response =
                        [status |-> status,
                         success |->
                           IF status = 500 THEN "false" ELSE "absent"]]]
  /\ UNCHANGED <<files, inodes>>
  /\ UnchangedByRuns

\* the pipeline throws: the catch block of POST answers 500
Throw(run) ==
  [run EXCEPT !.pc = "failed", !.fd = 0,
              !.response = [status |-> 500, success |-> "false"]]

\* [OUTPUT_PATH, EXPLANATIONS_PATH], the order of the two writes
WritePaths == <<OUTPUT_PATH, EXPLANATIONS_PATH>>

\* what invocation r writes: output, then explanationsMap
dataOf(r) == [of |-> r, tutors |-> runs[r].batch]

\* an inode keeps its pieces as long as a name or a descriptor refers to it
Sweep(names, all, held) ==
  [i \in 1..MaxInodes |->
     IF (\E filePath \in Paths : names[filePath] = i) \/ i \in held
     THEN all[i] ELSE <<>>]

\* the CSV files are read and every tutor is scored and explained
Load(r, batch) ==
  /\ runs[r].pc = "load"
  /\ runs' = [runs EXCEPT ![r] = [@ EXCEPT !.pc = "open", !.batch = batch,
                                           !.writing = 1]]
  /\ UNCHANGED <<files, inodes>>
  /\ UnchangedByRuns

\* writeJsonAtomic: ensureParentDirectory, then fs.writeFile opens the
\* temporary file, which empties it if it is there and creates it if not
OpenTemp(r) ==
  /\ runs[r].pc = "open"
  /\ LET temp == tempPath(WritePaths[runs[r].writing])
         used ==
           {files[filePath] : filePath \in Paths}
           \cup {runs[q].fd : q \in Runs}
         fresh ==
           CHOOSE i \in 1..MaxInodes :
             i \notin used /\ \A j \in 1..MaxInodes : j \notin used => i <= j
         inode == IF files[temp] # 0 THEN files[temp] ELSE fresh
     IN  /\ files' = [files EXCEPT ![temp] = inode]
         /\ inodes' = [inodes EXCEPT ![inode] = <<>>]
         /\ runs' = [runs EXCEPT ![r] = [@ EXCEPT !.pc = "write",
                                                  !.fd = inode]]
  /\ UnchangedByRuns

\* fs.writeFile writes the whole text at the start of the file it opened
\* and closes it
WriteTemp(r) ==
  /\ runs[r].pc = "write"
  /\ LET text == Serialized(WritePaths[runs[r].writing], dataOf(r))
         inode == runs[r].fd
         written ==
           [inodes EXCEPT
              ![inode] = text \o SubSeq(@, Len(text) + 1, Len(@))]
     IN  /\ runs' = [runs EXCEPT ![r] = [@ EXCEPT !.pc = "rename", !.fd = 0]]
         /\ inodes' =
              Sweep(files, written, {runs[q].fd : q \in Runs \ {r}})
  /\ UNCHANGED files
  /\ UnchangedByRuns

\* fs.rename(tempPath, filePath): ENOENT when the temporary file is gone;
\* after the second rename the pipeline returns and POST answers 200
RenameTemp(r) ==
  /\ runs[r].pc = "rename"
  /\ LET filePath == WritePaths[runs[r].writing]
         temp == tempPath(filePath)
         renamed == [files EXCEPT ![filePath] = files[temp], ![temp] = 0]
     IN  IF files[temp] = 0
         THEN /\ runs' = [runs EXCEPT ![r] = Throw(@)]
              /\ UNCHANGED <<files, inodes>>
         ELSE /\ files' = renamed
              /\ inodes' = Sweep(renamed, inodes, {runs[q].fd : q \in Runs})
              /\ runs' =
                   [runs EXCEPT
                      ![r] =
                        IF @.writing < Len(WritePaths)
                        THEN [@ EXCEPT !.pc = "open",
                                       !.writing = @ + 1]
                        ELSE [@ EXCEPT
                                !.pc = "done",
                                !.response =
                                  [status |-> 200, success |-> "true"]]]
  /\ UnchangedByRuns

\* a CSV file is missing, empty or has another header, or a call of fs
\* rejects: the invocation throws where it stands
IOError(r) ==
  /\ runs[r].pc \in {"load", "open", "write", "rename"}
  /\ runs' = [runs EXCEPT ![r] = Throw(@)]
  /\ inodes' = Sweep(files, inodes, {runs[q].fd : q \in Runs \ {r}})
  /\ UNCHANGED files
  /\ UnchangedByRuns

\* the batches of tutors.csv
Batches == {<<>>, <<"T1">>, <<"T1", "T2">>, <<"T2", "T1">>}

\* the two files as invocation 0 left them
FilesOfRun(batch) ==
  /\ files =
       [filePath \in Paths |->
          IF filePath = OUTPUT_PATH THEN 1
          ELSE IF filePath = EXPLANATIONS_PATH THEN 2 ELSE 0]
  /\ inodes =
       [i \in 1..MaxInodes |->
          IF i = 1
          THEN Serialized(OUTPUT_PATH, [of |-> 0, tutors |-> batch])
          ELSE IF i = 2
          THEN Serialized(EXPLANATIONS_PATH, [of |-> 0, tutors |-> batch])
          ELSE <<>>]

(***************************************************************************)
(* One POST /api/recompute; any call of the invocation may fail.           *)
(***************************************************************************)
Secrets ==
  {Unset, [set |-> TRUE, value |-> <<>>], [set |-> TRUE, value |-> <<"s">>],
   [set |-> TRUE, value |-> <<"s", "t">>],
   [set |-> TRUE, value |-> <<" ", "s">>]}

\* Authorization headers as the server hands them over: none, other
\* schemes, and Bearer with one or more blanks before the token
Headers ==
  {<<>>, <<"s">>, <<"B", "e", "a", "r", "e", "r">>,
   <<"b", "e", "a", "r", "e", "r", " ", "s">>}
  \cup {Bearer \o token :
          token \in {<<"s">>, <<"t">>, <<"s", "t">>, <<" ", "s">>,
                     <<" ", "s", "t">>, <<"s", " ", "t">>}}

InitRecompute ==
  /\ PipelineAtRest("service")
  /\ formulaVersion = "v2"
  /\ unitCall = NoCall
  /\ unitResult = NULL
  /\ secret \in Secrets
  /\ FilesOfRun(<<"T1">>)
  /\ runs = [r \in Runs |-> NoRun]
  /\ scoresRequest = NoRequest

NextRecompute ==
  \/ \E authHeader \in Headers : Post(1, authHeader)
  \/ \E batch \in Batches : Load(1, batch)
  \/ OpenTemp(1)
  \/ WriteTemp(1)
  \/ RenameTemp(1)
  \/ IOError(1)

SpecRecompute == InitRecompute /\ [][NextRecompute]_vars

(***************************************************************************)
(* Two invocations that overlap; no call fails of itself.                  *)
(***************************************************************************)
\* the batch each invocation loads
OverlapBatch == <<<<"T1", "T2">>, <<"T1">>>>

InitOverlap ==
  /\ PipelineAtRest("service")
  /\ formulaVersion = "v2"
  /\ unitCall = NoCall
  /\ unitResult = NULL
  /\ secret = [set |-> TRUE, value |-> <<"s">>]
  /\ FilesOfRun(<<"T2">>)
  /\ runs = [r \in Runs |-> NoRun]
  /\ scoresRequest = NoRequest

NextOverlap ==
  \/ \E r \in Runs : Post(r, Bearer \o secret.value)
  \/ \E r \in Runs : Load(r, OverlapBatch[r])
  \/ \E r \in Runs : OpenTemp(r)
  \/ \E r \in Runs : WriteTemp(r)
  \/ \E r \in Runs : RenameTemp(r)

SpecOverlap == InitOverlap /\ [][NextOverlap]_vars

(***************************************************************************)
(* One GET /api/scores, whatever the two files hold.                       *)
(***************************************************************************)
\* a file: none, one cut short, or a whole one
FileStates(filePath) ==
  {<<>>}
  \cup {<<Truncated(filePath, [of |-> 1, tutors |-> <<"T1">>])>>}
  \cup {<<Serialized(filePath, [of |-> 1, tutors |-> batch])>> :
          batch \in Batches}

InitScores ==
  /\ PipelineAtRest("service")
  /\ formulaVersion = "v2"
  /\ unitCall = NoCall
  /\ unitResult = NULL
  /\ secret = Unset
  /\ \E scores \in FileStates(OUTPUT_PATH),
        explanations \in FileStates(EXPLANATIONS_PATH) :
       /\ files =
            [filePath \in Paths |->
               IF filePath = OUTPUT_PATH /\ scores # <<>> THEN 1
               ELSE IF filePath = EXPLANATIONS_PATH /\ explanations # <<>>
               THEN 2 ELSE 0]
       /\ inodes =
            [i \in 1..MaxInodes |->
               IF i = 1 /\ scores # <<>> THEN scores[1]
               ELSE IF i = 2 /\ explanations # <<>> THEN explanations[1]
               ELSE <<>>]
  /\ runs = [r \in Runs |-> NoRun]
  /\ scoresRequest = [NoRequest EXCEPT !.pc = "reading"]

NextScores == ReadScores \/ ReadExplanations \/ RespondScores

SpecScores == InitScores /\ [][NextScores]_vars

(***************************************************************************)
(* computeChurnRisk on any metrics, score and trend.                       *)
(***************************************************************************)
\* rates in tenths, the first-session rating on both sides of 3.0
RiskMetrics ==
  [avgRating : {I(4)},
   dropoutRate : {I(0), Q(1, 2), I(1)},
   techIssueRate : {I(0)},
   rescheduleRate : {I(0)},
   sessionsCount : {10},
   firstSessionAvgRating : {NULL, Q(29, 10), I(3)},
   firstSessionDropoutRate : {I(0), I(1)},
   firstSessionCount : {1},
   tutorInitiatedRescheduleRate : {I(0), Q(1, 10), I(1)},
   tutorInitiatedRescheduleCount : {0},
   noShowRate : {I(0), Q(3, 10), I(1)},
   noShowCount : {0}]

\* scores on both sides of every band
RiskScores == {49, 50, 59, 60, 69, 70}

\* trends of no, one, two and three values; the deltas of the longer ones
\* are on both sides of -15, -8 and 5
RiskTrends ==
  {<<>>, <<50>>, <<50, 34>>, <<50, 35>>, <<50, 41>>, <<50, 42>>, <<50, 55>>,
   <<50, 56>>, <<50, 0, 56>>, <<80, 100, 64>>}

InitChurnRisk ==
  /\ Idle("computeChurnRisk")
  /\ formulaVersion = "v2"
  /\ \E metrics \in RiskMetrics, score \in RiskScores, trend \in RiskTrends :
       unitCall = [called |-> FALSE, metrics |-> metrics, score |-> score,
                   trend |-> trend]

CallComputeChurnRisk ==
  \E risk \in {computeChurnRisk(unitCall.metrics, unitCall.score,
                                unitCall.trend)} :
    Returns("computeChurnRisk", risk)

NextChurnRisk == CallComputeChurnRisk

SpecChurnRisk == InitChurnRisk /\ [][NextChurnRisk]_vars

(***************************************************************************)
(* computeStatistics on any batch of feature vectors.                      *)
(***************************************************************************)
\* most vectors in a batch handed to computeStatistics
MaxBatch == 3

\* vectors that differ in a rate and in the session count
StatFeatures ==
  {[key \in FeatureNames |->
      IF key = "dropout_rate" THEN rate
      ELSE IF key = "score" THEN I(40)
      ELSE IF key = "sessions_count" THEN count ELSE I(0)] :
     rate \in {I(0), Q(1, 2), I(1)}, count \in {I(0), I(2), I(10)}}

InitStatistics ==
  /\ Idle("computeStatistics")
  /\ formulaVersion = "v2"
  /\ \E features \in SeqUpTo(StatFeatures, MaxBatch) :
       unitCall =
         [called |-> FALSE,
          vectors |->
            [i \in 1..Len(features) |->
               [tutorId |-> i, features |-> features[i]]]]

CallComputeStatistics ==
  \E stats \in {computeStatistics(unitCall.vectors)} :
    Returns("computeStatistics", stats)

NextStatistics == CallComputeStatistics

SpecStatistics == InitStatistics /\ [][NextStatistics]_vars

(***************************************************************************)
(* The tutor details API (app/api/tutor/[id]/route.ts) has its own         *)
(* computeMetrics and computeScore, which score the sessions of one day.   *)
(***************************************************************************)
detailsNoCounts ==
  [ratingSum |-> I(0), ratingCount |-> 0, dropoutCount |-> 0,
   rescheduleCount |-> 0, techIssueCount |-> 0,
   tutorInitiatedReschedules |-> 0, noShowCount |-> 0,
   firstSessionRatingSum |-> I(0), firstSessionRatingCount |-> 0,
   firstSessionDropoutCount |-> 0, firstSessionCount |-> 0]

\* one pass of the loop over the sessions
detailsCountSession(c, session) ==
  LET rated == session.rating # NULL
      dropout == session.status = "dropout"
      rescheduled == ~dropout /\ session.status = "rescheduled"
      first == session.isFirstSession
      Plus(n, test) == IF test THEN n + 1 ELSE n
  IN  [ratingSum |->
         IF rated THEN RAdd(c.ratingSum, session.rating) ELSE c.ratingSum,
       ratingCount |-> Plus(c.ratingCount, rated),
       dropoutCount |-> Plus(c.dropoutCount, dropout),
       firstSessionDropoutCount |->
         Plus(c.firstSessionDropoutCount, dropout /\ first),
       rescheduleCount |-> Plus(c.rescheduleCount, rescheduled),
       tutorInitiatedReschedules |->
         Plus(c.tutorInitiatedReschedules,
              rescheduled /\ session.rescheduleInitiator = "tutor"),
       techIssueCount |-> Plus(c.techIssueCount, session.hasTechIssue),
       noShowCount |-> Plus(c.noShowCount, session.noShow),
       firstSessionCount |-> Plus(c.firstSessionCount, first),
       firstSessionRatingSum |->
         IF first /\ rated THEN RAdd(c.firstSessionRatingSum, session.rating)
         ELSE c.firstSessionRatingSum,
       firstSessionRatingCount |->
         Plus(c.firstSessionRatingCount, first /\ rated)]

\* the loop, from session i on
RECURSIVE detailsCount(_, _, _)
detailsCount(sessions, i, c) ==
  IF i > Len(sessions) THEN c
  ELSE Let(detailsCountSession(c, sessions[i]),
           LAMBDA next : detailsCount(sessions, i + 1, next))

\* a variant of the details computeMetrics: tutor-initiated reschedules
\* over all sessions
detailsComputeMetricsOverTotal(sessions) ==
  IF Len(sessions) = 0 THEN
    [avgRating |-> NULL, dropoutRate |-> I(0), techIssueRate |-> I(0),
     rescheduleRate |-> I(0), sessionsCount |-> 0,
     firstSessionAvgRating |-> NULL, firstSessionDropoutRate |-> I(0),
     firstSessionCount |-> 0, tutorInitiatedRescheduleRate |-> I(0),
     tutorInitiatedRescheduleCount |-> 0, noShowRate |-> I(0),
     noShowCount |-> 0]
  ELSE
    Let(detailsCount(sessions, 1, detailsNoCounts), LAMBDA c :
      LET total == Len(sessions)
          Rate(count, of) == IF of > 0 THEN Q(count, of) ELSE I(0)
          Average(sum, count) ==
            IF count > 0 THEN RDiv(sum, I(count)) ELSE NULL
      IN  [avgRating |-> Average(c.ratingSum, c.ratingCount),
           dropoutRate |-> Rate(c.dropoutCount, total),
           techIssueRate |-> Rate(c.techIssueCount, total),
           rescheduleRate |-> Rate(c.rescheduleCount, total),
           sessionsCount |-> total,
           firstSessionAvgRating |->
             Average(c.firstSessionRatingSum, c.firstSessionRatingCount),
           firstSessionDropoutRate |->
             Rate(c.firstSessionDropoutCount, c.firstSessionCount),
           firstSessionCount |-> c.firstSessionCount,
           tutorInitiatedRescheduleRate |->
             Rate(c.tutorInitiatedReschedules, total),
           tutorInitiatedRescheduleCount |-> c.tutorInitiatedReschedules,
           noShowRate |-> Rate(c.noShowCount, total),
           noShowCount |-> c.noShowCount])

detailsComputeMetrics(sessions) ==
  IF Len(sessions) = 0 THEN
    [avgRating |-> NULL, dropoutRate |-> I(0), techIssueRate |-> I(0),
     rescheduleRate |-> I(0), sessionsCount |-> 0,
     firstSessionAvgRating |-> NULL, firstSessionDropoutRate |-> I(0),
     firstSessionCount |-> 0, tutorInitiatedRescheduleRate |-> I(0),
     tutorInitiatedRescheduleCount |-> 0, noShowRate |-> I(0),
     noShowCount |-> 0]
  ELSE
    Let(detailsCount(sessions, 1, detailsNoCounts), LAMBDA c :
      LET total == Len(sessions)
          Rate(count, of) == IF of > 0 THEN Q(count, of) ELSE I(0)
          Average(sum, count) ==
            IF count > 0 THEN RDiv(sum, I(count)) ELSE NULL
      IN  [avgRating |-> Average(c.ratingSum, c.ratingCount),
           dropoutRate |-> Rate(c.dropoutCount, total),
           techIssueRate |-> Rate(c.techIssueCount, total),
           rescheduleRate |-> Rate(c.rescheduleCount, total),
           sessionsCount |-> total,
           firstSessionAvgRating |->
             Average(c.firstSessionRatingSum, c.firstSessionRatingCount),
           firstSessionDropoutRate |->
             Rate(c.firstSessionDropoutCount, c.firstSessionCount),
           firstSessionCount |-> c.firstSessionCount,
           tutorInitiatedRescheduleRate |->
             Rate(c.tutorInitiatedReschedules, c.rescheduleCount),
           tutorInitiatedRescheduleCount |-> c.tutorInitiatedReschedules,
           noShowRate |-> Rate(c.noShowCount, total),
           noShowCount |-> c.noShowCount])

\* value is the integer Math.round returned
detailsClampScore(value) ==
  IF value < 0 THEN 0 ELSE IF value > 100 THEN 100 ELSE value

detailsComputeScoreV1(metrics) ==
  LET ratingForPenalty == OrElse(metrics.avgRating, I(5))
      rawScore ==
        RSub(I(100),
             RAdd(RAdd(RAdd(RMul(metrics.dropoutRate, I(40)),
                            RMul(metrics.techIssueRate, I(30))),
                       RMul(metrics.rescheduleRate, I(20))),
                  RMul(RSub(I(5), ratingForPenalty), I(10))))
  IN  detailsClampScore(MathRound(rawScore))

detailsComputeScoreV2(metrics) ==
  LET avgRating == OrElse(metrics.avgRating, I(5))
      firstSessionRating ==
        OrElse(metrics.firstSessionAvgRating, OrElse(metrics.avgRating, I(5)))
      dropoutPenalty == RMul(metrics.dropoutRate, I(30))
      firstSessionDropoutPenalty ==
        RMul(IF metrics.firstSessionCount > 0 THEN I(35) ELSE I(20),
             metrics.firstSessionDropoutRate)
      techPenalty == RMul(metrics.techIssueRate, I(18))
      reschedulePenalty == RMul(metrics.rescheduleRate, I(12))
      tutorReschedulePenalty ==
        RMul(metrics.tutorInitiatedRescheduleRate, I(20))
      noShowPenalty == RMul(metrics.noShowRate, I(28))
      ratingPenalty == RMul(RSub(I(5), avgRating), I(12))
      firstSessionRatingPenalty ==
        RMul(RMax(I(0), RSub(Q(45, 10), firstSessionRating)), I(8))
      volume ==
        IF metrics.sessionsCount < 5 THEN I(4)
        ELSE IF metrics.sessionsCount < 10 THEN I(2) ELSE I(0)
      penaltySum ==
        RSum(<<dropoutPenalty, firstSessionDropoutPenalty, techPenalty,
               reschedulePenalty, tutorReschedulePenalty, noShowPenalty,
               ratingPenalty, firstSessionRatingPenalty, volume>>)
  IN  detailsClampScore(MathRound(RSub(I(100), penaltySum)))

detailsComputeScore(metrics, version) ==
  IF version = "v1" THEN detailsComputeScoreV1(metrics)
  ELSE detailsComputeScoreV2(metrics)

\* the sessions of a day, or of a whole history: 0..MaxRep of each kind
InitDetails ==
  /\ Idle("tutorDetails")
  /\ formulaVersion \in {"v1", "v2"}
  /\ \E counts \in [1..Len(TutorKinds) -> 0..MaxRep] :
       unitCall =
         [called |-> FALSE, sessions |-> Blocks(counts, Len(TutorKinds))]

\* the details API scores the sessions
CallDetailsComputeScore ==
  \E metrics \in {detailsComputeMetrics(unitCall.sessions)} :
    Returns("tutorDetails",
            [metrics |-> metrics,
             score |-> detailsComputeScore(metrics, formulaVersion)])

NextDetails == CallDetailsComputeScore

SpecDetails == InitDetails /\ [][NextDetails]_vars

(***************************************************************************)
(* computeScoreV2 on the metrics of one tutor's sessions.                  *)
(***************************************************************************)
kDropout(d) == Session(d, I(1), "dropout", FALSE, FALSE, "null", FALSE)

\* the sessions of a tutor: with and without first sessions, with and
\* without dropouts
WeightSessions ==
  {kGood(1), kUnrated(1), kDropout(1), kFirstDropout(1), kPoorFirst(1)}

InitScoreV2 ==
  /\ Idle("computeScoreV2")
  /\ formulaVersion = "v2"
  /\ \E sessions \in SeqUpTo(WeightSessions, MaxSessions) :
       unitCall = [called |-> FALSE, sessions |-> sessions]

\* the scoring loop: metrics = computeMetrics(sessions), then
\* computeScore(metrics, formulaVersion)
CallComputeScoreV2 ==
  \E metrics \in {computeMetrics(unitCall.sessions)} :
    Returns("computeScoreV2",
            [metrics |-> metrics,
             score |-> computeScore(metrics, formulaVersion)])

NextScoreV2 == CallComputeScoreV2

SpecScoreV2 == InitScoreV2 /\ [][NextScoreV2]_vars

(***************************************************************************)
(* The signals of a bundle (lib/ai/ai_orchestrator.ts).  A signal is the   *)
(* tuple of the parts of its text.                                         *)
(***************************************************************************)
\* the label of the profile with the given id, PERSONA_LIBRARY; a persona
\* that is null is written "null"
labelOf(persona) ==
  CASE persona = "rising-star" -> "Rising Star"
    [] persona = "at-risk-newcomer" -> "At-Risk Newcomer"
    [] persona = "reliability-challenged" -> "Reliability Challenged"
    [] persona = "stabilizing" -> "Stabilizing Performer"

\* (insights.churnProbability * 100).toFixed(0)
churnPercent(churnProbability) == toFixed(RMul(churnProbability, I(100)), 0)

\* a mutation of buildSignals: the persona is pushed first
buildSignalsPersonaFirst(insights) ==
  LET persona ==
        IF insights.persona # "null"
        THEN <<<<"Persona: ", labelOf(insights.persona)>>>> ELSE <<>>
      churn ==
        IF RLt(Q(7, 10), insights.churnProbability)
        THEN <<<<"High churn probability",
                 churnPercent(insights.churnProbability)>>>>
        ELSE IF RLt(Q(45, 100), insights.churnProbability)
        THEN <<<<"Moderate churn probability",
                 churnPercent(insights.churnProbability)>>>>
        ELSE <<>>
      anomaly ==
        IF RLt(Q(65, 100), insights.anomalyScore)
        THEN <<<<"Critical anomaly detected">>>>
        ELSE IF RLt(Q(4, 10), insights.anomalyScore)
        THEN <<<<"Unusual metric pattern detected">>>>
        ELSE <<>>
      trajectory ==
        IF insights.forecast.trajectory = "declining"
        THEN <<<<"Forecast indicates decline">>>>
        ELSE IF insights.forecast.trajectory = "volatile"
        THEN <<<<"Performance is volatile">>>>
        ELSE <<>>
  IN  persona \o churn \o anomaly \o trajectory

\* the pushes in the order of the code
buildSignals(insights) ==
  LET churn ==
        IF RLt(Q(7, 10), insights.churnProbability)
        THEN <<<<"High churn probability",
                 churnPercent(insights.churnProbability)>>>>
        ELSE IF RLt(Q(45, 100), insights.churnProbability)
        THEN <<<<"Moderate churn probability",
                 churnPercent(insights.churnProbability)>>>>
        ELSE <<>>
      anomaly ==
        IF RLt(Q(65, 100), insights.anomalyScore)
        THEN <<<<"Critical anomaly detected">>>>
        ELSE IF RLt(Q(4, 10), insights.anomalyScore)
        THEN <<<<"Unusual metric pattern detected">>>>
        ELSE <<>>
      trajectory ==
        IF insights.forecast.trajectory = "declining"
        THEN <<<<"Forecast indicates decline">>>>
        ELSE IF insights.forecast.trajectory = "volatile"
        THEN <<<<"Performance is volatile">>>>
        ELSE <<>>
      persona ==
        IF insights.persona # "null"
        THEN <<<<"Persona: ", labelOf(insights.persona)>>>> ELSE <<>>
  IN  churn \o anomaly \o trajectory \o persona

\* const persona = assignPersona(vector); return { persona }
buildClusterInsights(vector) == [persona |-> assignPersona(vector)]

\* the feature vectors of the bundles: near each of the four centroids
SignalFeatures ==
  {f \in PersonaFeatures :
     /\ f.avg_rating = I(5)
     /\ f.no_show_rate = I(0)}

\* predictChurn returns a sigmoid, detectAnomaly a score from 0 to 1: on
\* both sides of each limit of buildSignals
SignalProbabilities == {I(0), Q(45, 100), Q(1, 2), Q(7, 10), Q(3, 4)}

SignalAnomalyScores == {I(0), Q(4, 10), Q(1, 2), Q(65, 100), Q(3, 4)}

Trajectories == {"improving", "stable", "declining", "volatile"}

InitSignals ==
  /\ Idle("buildSignals")
  /\ formulaVersion = "v2"
  /\ \E features \in SignalFeatures, churn \in SignalProbabilities,
        anomaly \in SignalAnomalyScores, trajectory \in Trajectories :
       unitCall =
         [called |-> FALSE,
          vector |-> [tutorId |-> 1, features |-> features],
          churnProbability |-> churn,
          anomalyScore |-> anomaly,
          forecast |-> [trajectory |-> trajectory]]

\* the body of the loop of generateAiInsights from buildClusterInsights on:
\* the bundle's persona and its signals
CallBuildSignals ==
  \E personaResult \in {buildClusterInsights(unitCall.vector)} :
    Returns("buildSignals",
            [persona |-> personaResult.persona,
             signals |->
               buildSignals([churnProbability |-> unitCall.churnProbability,
                             anomalyScore |-> unitCall.anomalyScore,
                             forecast |-> unitCall.forecast,
                             persona |-> personaResult.persona])])

NextSignals == CallBuildSignals

SpecSignals == InitSignals /\ [][NextSignals]_vars

(***************************************************************************)
(* formula_version in the two GET handlers (app/api/scores/route.ts and    *)
(* app/api/tutor/[id]/route.ts), both files read and parsed.               *)
(***************************************************************************)
\* scores.formula_version as parsed from scores.json: "undefined" when the
\* file has no such field, "null" for a JSON null
FormulaVersionFields == {"undefined", "null", "v1", "v2", "v3"}

\* scores.formula_version ?? "v1"
scoresFormulaVersion(field) ==
  IF field \in {"undefined", "null"} THEN "v1" ELSE field

\* scores.formula_version === "v1" ? "v1" : "v2"
detailsFormulaVersion(field) == IF field = "v1" THEN "v1" ELSE "v2"

\* buildDateRange(effectiveLatestDate, 14)
DetailsDays == 14

\* the days from latestDate - (days - 1) to latestDate
buildDateRange(latestDate, days) ==
  [i \in 1..days |-> latestDate - (days - i)]

RECURSIVE detailsDailyScores(_, _, _, _)
\* the loop of buildDailySeries from the first date of dateRange on: the
\* score of each day
detailsDailyScores(sessions, dateRange, lastScore, version) ==
  IF dateRange = <<>> THEN <<>>
  ELSE LET OnDay(s) == s.date = dateRange[1]
           dailySessions == SelectSeq(sessions, OnDay)
           score ==
             IF Len(dailySessions) > 0
             THEN detailsComputeScore(detailsComputeMetrics(dailySessions),
                                      version)
             ELSE lastScore
       IN  <<score>>
           \o detailsDailyScores(sessions, Tail(dateRange), score, version)

buildDailySeries(sessions, dateRange, fallbackScore, version) ==
  detailsDailyScores(sessions, dateRange, detailsClampScore(fallbackScore),
                     version)

\* no response yet
Pending == [status |-> 0]

\* GET /api/scores once both files are parsed
scoresVersionResponse(scores) ==
  [status |-> 200,
   formula_version |-> scoresFormulaVersion(scores.formula_version)]

\* GET /api/tutor/[id] once the files are parsed: 404 for a tutor that
\* scores.json does not list
detailsResponse(scores, sessions) ==
  IF ~scores.scored THEN [status |-> 404]
  ELSE
    LET latestDate == MaxDate(sessions)
        effectiveLatestDate ==
          IF latestDate # NoDate THEN latestDate ELSE Today
        dateRange == buildDateRange(effectiveLatestDate, DetailsDays)
        version == detailsFormulaVersion(scores.formula_version)
    IN  [status |-> 200,
         days |-> buildDailySeries(sessions, dateRange, scores.score, version),
         formula_version |-> version]

\* the sessions of the tutor in sessions.csv
VersionSessions == {kGood(7), kFirstDropout(7), kPoorFirst(6)}

InitVersions ==
  /\ PipelineAtRest("GET")
  /\ ServiceAtRest
  /\ formulaVersion = "v2"
  /\ \E field \in FormulaVersionFields,
        scored \in BOOLEAN,
        sessions \in SeqUpTo(VersionSessions, MaxSessions) :
       unitCall =
         [called |-> FALSE,
          scores |->
            [formula_version |-> field, scored |-> scored, score |-> 70],
          sessions |-> sessions]
  /\ unitResult = [scores |-> Pending, tutor |-> Pending]

UnchangedByGet ==
  UNCHANGED <<pc, formulaVersion, tutorIds, sessionsByTutor, totalSessions,
              latestSessionDate, metricsOf, churnRiskOf, tutorOutputs,
              featureVectors, aiInsights, thresholdSummary, trendCall,
              trendResult, unitCall, secret, files, inodes, runs,
              scoresRequest, explain>>

GetScores ==
  /\ pc = "GET"
  /\ unitResult.scores = Pending
  /\ unitResult' =
       [unitResult EXCEPT !.scores = scoresVersionResponse(unitCall.scores)]
  /\ UnchangedByGet

GetTutorDetails ==
  /\ pc = "GET"
  /\ unitResult.tutor = Pending
  /\ unitResult' =
       [unitResult EXCEPT
          !.tutor = detailsResponse(unitCall.scores, unitCall.sessions)]
  /\ UnchangedByGet

NextVersions == GetScores \/ GetTutorDetails

SpecVersions == InitVersions /\ [][NextVersions]_vars

(***************************************************************************)
(* generateExplanationsForAll (scripts/score_tutors.ts).  JavaScript runs  *)
(* one continuation at a time: a step of the model is the code between two *)
(* awaits.  The state of the call is the record explain: the closure's     *)
(* map, index and aiGenerated, the position of every worker, and for each  *)
(* tutor how often processTutor was called for it, how many requests were  *)
(* sent for it and how many of them failed.  Token counts are left out.    *)
(***************************************************************************)
\* most tutors in a batch that is explained
MaxExplained == 5

\* buildFallbackExplanation(tutor): the explanation built from the template
buildFallbackExplanation(tutor) == [source |-> "template", tutor_id |-> tutor]

\* the explanation parsed from a valid response
llmExplanation(tutor) == [source |-> "llm", tutor_id |-> tutor]

\* a mutation of concurrency: a worker for every at-risk tutor
concurrencyUncapped(atRiskTutors) == Len(atRiskTutors)

\* Math.min(4, atRiskTutors.length)
concurrency(atRiskTutors) ==
  IF Len(atRiskTutors) < 4 THEN Len(atRiskTutors) ELSE 4

\* the first loop: every tutor of the batch gets the template
fallbackMap(allTutors) ==
  [tutor \in Range(allTutors) |-> buildFallbackExplanation(tutor)]

\* the value returned
explainResult(map, aiGenerated, allTutors) ==
  [map |-> map, aiGenerated |-> aiGenerated,
   fallbackGenerated |-> Len(allTutors) - aiGenerated]

NoResult == [aiGenerated |-> -1]

\* a mutation of takeNext: the index is advanced twice
takeNextSkips(state, w, atRiskTutors) ==
  LET currentIndex == state.index
      advanced == [state EXCEPT !.index = @ + 2]
  IN  IF currentIndex >= Len(atRiskTutors)
      THEN [advanced EXCEPT !.workers[w] = [pc |-> "done", tutor |-> 0,
                                            attempt |-> 0]]
      ELSE LET tutor == atRiskTutors[currentIndex + 1]
           IN  [advanced EXCEPT
                  !.workers[w] =
                    [pc |-> "inflight", tutor |-> tutor, attempt |-> 0],
                  !.processed[tutor] = @ + 1,
                  !.requests[tutor] = @ + 1]

\* one turn of a worker's loop up to its await: take the index, advance it,
\* return when the list is used up, else call processTutor, which sends the
\* first request for the tutor
takeNext(state, w, atRiskTutors) ==
  LET currentIndex == state.index
      advanced == [state EXCEPT !.index = @ + 1]
  IN  IF currentIndex >= Len(atRiskTutors)
      THEN [advanced EXCEPT !.workers[w] = [pc |-> "done", tutor |-> 0,
                                            attempt |-> 0]]
      ELSE LET tutor == atRiskTutors[currentIndex + 1]
           IN  [advanced EXCEPT
                  !.workers[w] =
                    [pc |-> "inflight", tutor |-> tutor, attempt |-> 0],
                  !.processed[tutor] = @ + 1,
                  !.requests[tutor] = @ + 1]

RECURSIVE startWorkers(_, _, _)
\* the loop that creates the workers: each one runs up to its first await
\* before the next is created
startWorkers(state, w, atRiskTutors) ==
  IF w > Len(state.workers) THEN state
  ELSE startWorkers(takeNext(state, w, atRiskTutors), w + 1, atRiskTutors)

\* the call up to its first await or its early return; sdk tells whether
\* import("openai") succeeds
startExplaining(allTutors, atRiskTutors, apiKey, sdk) ==
  LET map == fallbackMap(allTutors)
      counters == [tutor \in Range(allTutors) |-> 0]
      early ==
        [pc |-> "returned", map |-> map, index |-> 0, aiGenerated |-> 0,
         workers |-> <<>>, processed |-> counters, requests |-> counters,
         failures |-> counters,
         result |-> explainResult(map, 0, allTutors)]
  IN  IF Len(atRiskTutors) = 0 \/ apiKey = "" \/ ~sdk THEN early
      ELSE startWorkers(
             [pc |-> "running", map |-> map, index |-> 0, aiGenerated |-> 0,
              workers |->
                [w \in 1..concurrency(atRiskTutors) |->
                   [pc |-> "created", tutor |-> 0, attempt |-> 0]],
              processed |-> counters, requests |-> counters,
              failures |-> counters, result |-> NoResult],
             1, atRiskTutors)

UnchangedByExplaining ==
  UNCHANGED <<pc, formulaVersion, tutorIds, sessionsByTutor, totalSessions,
              latestSessionDate, metricsOf, churnRiskOf, tutorOutputs,
              featureVectors, aiInsights, thresholdSummary, trendCall,
              trendResult, unitResult, secret, files, inodes, runs,
              scoresRequest>>

\* generateExplanationsForAll(allTutors, atRiskTutors) is called
CallGenerateExplanations ==
  /\ pc = "generateExplanationsForAll"
  /\ ~unitCall.called
  /\ unitCall' = [unitCall EXCEPT !.called = TRUE]
  /\ explain' =
       startExplaining(unitCall.allTutors, unitCall.atRiskTutors,
                       unitCall.apiKey, unitCall.sdk)
  /\ UnchangedByExplaining

\* the request of worker w is answered with both fields: the explanation is
\* stored and processTutor returns
ResponseValid(w) ==
  /\ explain.pc = "running"
  /\ explain.workers[w].pc = "inflight"
  /\ LET tutor == explain.workers[w].tutor
     IN  explain' =
           [explain EXCEPT
              !.map[tutor] = llmExplanation(tutor),
              !.aiGenerated = @ + 1,
              !.workers[w].pc = "processed"]
  /\ UNCHANGED unitCall
  /\ UnchangedByExplaining

\* the request of worker w rejects, or its answer is no JSON or lacks a
\* field: the catch block; a second request after the first failure, the
\* template after the second
ResponseFails(w) ==
  /\ explain.pc = "running"
  /\ explain.workers[w].pc = "inflight"
  /\ LET tutor == explain.workers[w].tutor
         attempt == explain.workers[w].attempt
     IN  explain' =
           IF attempt = 1
           THEN [explain EXCEPT
                   !.failures[tutor] = @ + 1,
                   !.map[tutor] = buildFallbackExplanation(tutor),
                   !.workers[w].pc = "processed"]
           ELSE [explain EXCEPT
                   !.failures[tutor] = @ + 1,
                   !.requests[tutor] = @ + 1,
                   !.workers[w].attempt = attempt + 1]
  /\ UNCHANGED unitCall
  /\ UnchangedByExplaining

\* await processTutor(tutor) resumes worker w: the next turn of its loop
WorkerContinues(w) ==
  /\ explain.pc = "running"
  /\ explain.workers[w].pc = "processed"
  /\ explain' = takeNext(explain, w, unitCall.atRiskTutors)
  /\ UNCHANGED unitCall
  /\ UnchangedByExplaining

\* await Promise.all(workers) resumes: the call returns
ReturnExplanations ==
  /\ explain.pc = "running"
  /\ \A w \in 1..Len(explain.workers) : explain.workers[w].pc = "done"
  /\ explain' =
       [explain EXCEPT
          !.pc = "returned",
          !.result =
            explainResult(explain.map, explain.aiGenerated,
                          unitCall.allTutors)]
  /\ UNCHANGED unitCall
  /\ UnchangedByExplaining

\* the batch: tutors 1..n in the order of the ranking, of which the first k
\* are at risk
InitExplain ==
  /\ PipelineAtRest("generateExplanationsForAll")
  /\ ServiceAtRest
  /\ formulaVersion = "v2"
  /\ unitResult = NULL
  /\ \E n \in 0..MaxExplained, apiKey \in {"", "sk"}, sdk \in BOOLEAN :
       \E k \in 0..n :
         unitCall =
           [called |-> FALSE,
            allTutors |-> [i \in 1..n |-> i],
            atRiskTutors |-> [i \in 1..k |-> i],
            apiKey |-> apiKey,
            sdk |-> sdk]

NextExplain ==
  \/ CallGenerateExplanations
  \/ \E w \in 1..MaxExplained :
       /\ explain.pc = "running"
       /\ w <= Len(explain.workers)
       /\ \/ ResponseValid(w)
          \/ ResponseFails(w)
          \/ WorkerContinues(w)
  \/ ReturnExplanations

SpecExplain == InitExplain /\ [][NextExplain]_vars

\* the event loop runs every continuation that is ready, and every request
\* is settled, by an answer or by an error
SpecExplainFair ==
  InitExplain /\ [][NextExplain]_vars /\ WF_vars(NextExplain)

(***************************************************************************)
(* Properties.                                                             *)
(***************************************************************************)
\* the entry of tutorOutputs of tutor t (the ids of a batch are distinct)
OutputOf(t) ==
  tutorOutputs[CHOOSE i \in 1..Len(tutorOutputs) :
                 tutorOutputs[i].tutor_id = t]

Scored == pc \in {"ai", "done"}

\* a rational in the closed interval [lo, hi]
RBetween(x, lo, hi) == x # NULL /\ x[2] > 0 /\ RLe(lo, x) /\ RLe(x, hi)

\* C1: whatever the sessions of a tutor (none included) and whichever the
\* formula version, the score the loop computes is an integer from 0 to 100
C1_ScoreIsIntegerInRange ==
  \A i \in 1..Len(tutorOutputs) : tutorOutputs[i].score \in 0..100

\* a history whose raw v2 score is negative has been scored
C1_Witness ==
  /\ Scored
  /\ formulaVersion = "v2"
  /\ Len(sessionsByTutor[1]) > 0
  /\ \A i \in 1..Len(sessionsByTutor[1]) :
       sessionsByTutor[1][i] = kFirstDropout(7)
  /\ OutputOf(1).score = 0

\* every rate of a tutor without sessions is 0 and the ratings are null
IdleMetrics(m) ==
  /\ m.avgRating = NULL
  /\ m.firstSessionAvgRating = NULL
  /\ m.dropoutRate = I(0)
  /\ m.techIssueRate = I(0)
  /\ m.rescheduleRate = I(0)
  /\ m.firstSessionDropoutRate = I(0)
  /\ m.tutorInitiatedRescheduleRate = I(0)
  /\ m.noShowRate = I(0)

\* C2, as the code has it: a tutor with no session has a null average rating
\* and every rate 0, a churn risk of 0, and a score of 100 under v1 but of 96
\* under v2, whose low-volume penalty of 4 applies to an empty history too
C2_ZeroSessions ==
  Scored =>
    \A t \in 1..Len(tutorIds) :
      sessionsByTutor[t] = <<>> =>
        /\ IdleMetrics(metricsOf[t])
        /\ OutputOf(t).score = (IF formulaVersion = "v2" THEN 96 ELSE 100)
        /\ churnRiskOf[t] = I(0)
        /\ OutputOf(t).churn_risk = I(0)

\* C2 as stated: a tutor with no session has a null average rating, every
\* rate 0, a v2 score of exactly 100 and a churn risk of 0
C2_AsStated ==
  Scored /\ formulaVersion = "v2" =>
    \A t \in 1..Len(tutorIds) :
      sessionsByTutor[t] = <<>> =>
        /\ IdleMetrics(metricsOf[t])
        /\ OutputOf(t).score = 100
        /\ churnRiskOf[t] = I(0)

\* a batch scored under v2 in which one tutor has sessions and one has none
C2_Witness ==
  /\ Scored
  /\ formulaVersion = "v2"
  /\ \E t, u \in 1..Len(tutorIds) :
       sessionsByTutor[t] = <<>> /\ sessionsByTutor[u] # <<>>

\* C3 as stated: the insight bundle of a tutor with no session has the
\* trajectory 'stable' and recommends no intervention
C3_AsStated ==
  pc = "done" =>
    \A t \in 1..Len(tutorIds) :
      sessionsByTutor[t] = <<>> =>
        /\ aiInsights[t].forecast.trajectory = "stable"
        /\ aiInsights[t].interventions = <<>>

\* C4: buildTrendForTutor returns one value per date it is given, none for
\* no date, whatever the sessions, and every value is an integer from 0 to 100
C4_TrendLength ==
  trendCall.called =>
    /\ Len(trendResult) = Len(trendCall.dates)
    /\ \A i \in 1..Len(trendResult) : trendResult[i] \in 0..100

\* a tutor with sessions on the second and third of at least three dates:
\* the first day carries the fallback score, the days after the third repeat
\* the third day's score
C4_Witness ==
  /\ trendCall.called
  /\ trendCall.sessions = <<kGood(2), kFirstDropout(3)>>
  /\ Len(trendCall.dates) >= 3
  /\ trendResult[2] > trendResult[3]

\* count of value over total is the rate, and the rate is 0 for no total
IsRate(rate, value, total) ==
  /\ RBetween(rate, I(0), I(1))
  /\ IF total > 0 THEN rate[1] * total = value * rate[2] ELSE rate = I(0)

\* the number of sessions that pass the test
Number(sessions, Test(_)) ==
  Cardinality({i \in 1..Len(sessions) : Test(sessions[i])})

\* C5: every rate of the metrics is in [0, 1]; dropouts, technical issues,
\* reschedules and no-shows are taken over all sessions, first-session
\* dropouts over the first sessions, tutor-initiated reschedules over the
\* reschedules, each 0 for an empty denominator; avgRating is null exactly
\* when no session is rated
C5_Rates ==
  Scored =>
    \A t \in 1..Len(tutorIds) :
      LET m == metricsOf[t]
          ss == sessionsByTutor[t]
          IsDropout(x) == x.status = "dropout"
          IsTech(x) == x.hasTechIssue
          IsResched(x) == x.status = "rescheduled"
          IsNoShow(x) == x.noShow
          IsFirst(x) == x.isFirstSession
          IsFirstDropout(x) == x.isFirstSession /\ x.status = "dropout"
          IsTutorResched(x) ==
            x.status = "rescheduled" /\ x.rescheduleInitiator = "tutor"
          IsRated(x) == x.rating # NULL
      IN  /\ IsRate(m.dropoutRate, Number(ss, IsDropout), Len(ss))
          /\ IsRate(m.techIssueRate, Number(ss, IsTech), Len(ss))
          /\ IsRate(m.rescheduleRate, Number(ss, IsResched), Len(ss))
          /\ IsRate(m.noShowRate, Number(ss, IsNoShow), Len(ss))
          /\ IsRate(m.firstSessionDropoutRate, Number(ss, IsFirstDropout),
                    Number(ss, IsFirst))
          /\ IsRate(m.tutorInitiatedRescheduleRate,
                    Number(ss, IsTutorResched), Number(ss, IsResched))
          /\ (m.avgRating = NULL) <=> (Number(ss, IsRated) = 0)

\* a scored tutor with rated and unrated sessions, some of them rescheduled,
\* half of those by the tutor
C5_Witness ==
  /\ Scored
  /\ metricsOf[1].tutorInitiatedRescheduleRate = Q(1, 2)
  /\ RLt(metricsOf[1].rescheduleRate, Q(1, 2))
  /\ metricsOf[1].avgRating # NULL

VectorOf(t) ==
  featureVectors[CHOOSE i \in 1..Len(featureVectors) :
                   featureVectors[i].tutorId = t]

\* C9, as the code has it: the weak label is 1 exactly when the score is
\* below 60, or the churn risk as the percentage the pipeline stores, rounded
\* to one decimal, is above 55, or the dropout rate as stored, rounded to
\* four decimals, is above 0.18; otherwise it is 0
C9_WeakLabel ==
  pc = "done" =>
    \A t \in 1..Len(tutorIds) :
      VectorOf(t).labelChurn =
        IF \/ OutputOf(t).score < 60
           \/ MathRound(RMul(churnRiskOf[t], I(1000))) > 550
           \/ MathRound(RMul(metricsOf[t].dropoutRate, I(10000))) > 1800
        THEN 1 ELSE 0

\* C9 as stated: the weak label is 1 exactly when the score is below 60 or
\* the churn risk, a fraction, is above 0.55 or the dropout rate is above 0.18
C9_AsStated ==
  pc = "done" =>
    \A t \in 1..Len(tutorIds) :
      VectorOf(t).labelChurn =
        IF \/ OutputOf(t).score < 60
           \/ RLt(Q(55, 100), churnRiskOf[t])
           \/ RLt(Q(18, 100), metricsOf[t].dropoutRate)
        THEN 1 ELSE 0

\* a labelled tutor whose risk is above 0.55 but is stored as 55.0 per cent,
\* with a score of at least 60 and a dropout rate of at most 0.18
C9_Witness ==
  /\ pc = "done"
  /\ OutputOf(1).score >= 60
  /\ RLt(Q(55, 100), churnRiskOf[1])
  /\ OutputOf(1).churn_risk = I(55)
  /\ RLe(metricsOf[1].dropoutRate, Q(18, 100))
  /\ VectorOf(1).labelChurn = 0

\* the match score of a library item for tutor t, in the context the
\* orchestrator hands to recommendInterventions
MatchOf(t, id) ==
  match(id, VectorOf(t),
        [anomalyScore |-> aiInsights[t].anomalyScore,
         forecastTrajectory |-> aiInsights[t].forecast.trajectory])

\* C10: recommendInterventions returns at most 3 interventions, each with a
\* match score above 0.05, in non-increasing order of match score, and no
\* library item left out scores higher than a returned one; the pick at rank
\* k, 0 the best, has effectiveness min(0.95, base effectiveness + 0.05 * k)
C10_Recommendations ==
  pc = "done" =>
    \A t \in 1..Len(tutorIds) :
      LET picks == aiInsights[t].interventions
          picked == {picks[k].id : k \in 1..Len(picks)}
      IN  /\ Len(picks) <= 3
          /\ picked \subseteq Range(INTERVENTION_LIBRARY)
          /\ Cardinality(picked) = Len(picks)
          /\ \A k \in 1..Len(picks) :
               /\ RLt(Q(5, 100), MatchOf(t, picks[k].id))
               /\ k > 1 =>
                    RLe(MatchOf(t, picks[k].id), MatchOf(t, picks[k - 1].id))
               /\ \A id \in Range(INTERVENTION_LIBRARY) \ picked :
                    RLe(MatchOf(t, id), MatchOf(t, picks[k].id))
               /\ picks[k].effectiveness =
                    RMin(Q(95, 100),
                         RAdd(baseEffectiveness(picks[k].id),
                              Q(5 * (k - 1), 100)))

\* three interventions were picked out of more than three that score above
\* 0.05, and not in the order of the library
C10_Witness ==
  /\ pc = "done"
  /\ Len(aiInsights[1].interventions) = 3
  /\ \E id \in Range(INTERVENTION_LIBRARY) :
       /\ \A k \in 1..3 : aiInsights[1].interventions[k].id # id
       /\ RLt(Q(5, 100), MatchOf(1, id))
  /\ aiInsights[1].interventions[1].id = "no-show-mitigation"
  /\ aiInsights[1].interventions[3].id = "first-session-rescue"

(***************************************************************************)
(* Threshold calibration.                                                  *)
(***************************************************************************)
\* the element at 0-based index (p * (n - 1)) div 100 of the ascending order
\* of values: fewer than index + 1 elements are below it, and at least
\* index + 1 are not above it
NearestRank(values, p) ==
  LET index == (p * (Len(values) - 1)) \div 100
      Below(v) == Cardinality({i \in 1..Len(values) : RLt(values[i], v)})
      UpTo(v) == Cardinality({i \in 1..Len(values) : RLe(values[i], v)})
  IN  CHOOSE v \in Range(values) : Below(v) <= index /\ index < UpTo(v)

\* C11 as the spec states it: each percentile of computeDynamicThresholds is
\* the element at index floor(p/100 * (n - 1)) of the ascending order of the
\* n > 0 values, the score threshold is the rounded P35 of the scores, the
\* two rate thresholds come from the P70 of the rates, and an empty batch
\* gives 0 three times
C11_AsStated ==
  (pc = "computeDynamicThresholds" /\ unitCall.called) =>
    LET vectors == unitCall.vectors
        n == Len(vectors)
        scores == [i \in 1..n |-> vectors[i].features.score]
        dropoutRates == [i \in 1..n |-> vectors[i].features.dropout_rate]
        noShowRates == [i \in 1..n |-> vectors[i].features.no_show_rate]
    IN  IF n = 0
        THEN /\ unitResult.scoreThreshold = 0
             /\ unitResult.dropoutRateThreshold = I(0)
             /\ unitResult.noShowRateThreshold = I(0)
        ELSE /\ unitResult.scoreThreshold = MathRound(NearestRank(scores, 35))
             /\ unitResult.dropoutRateThreshold =
                  toFixed(RMul(NearestRank(dropoutRates, 70), I(100)), 1)
             /\ unitResult.noShowRateThreshold =
                  toFixed(RMul(NearestRank(noShowRates, 70), I(100)), 1)

(***************************************************************************)
(* Trajectory of a trend.                                                  *)
(***************************************************************************)
\* the least-squares slope of trend over the positions 0..n-1:
\* (n * sum(i * y) - sum(i) * sum(y)) / (n * sum(i * i) - sum(i)^2),
\* and 0 when that denominator is 0
SlopeOf(trend) ==
  LET n == Len(trend)
      sumX == ISum([i \in 1..n |-> i - 1])
      sumY == ISum(trend)
      sumXY == ISum([i \in 1..n |-> (i - 1) * trend[i]])
      sumXX == ISum([i \in 1..n |-> (i - 1) * (i - 1)])
  IN  IF n * sumXX - sumX * sumX = 0 THEN I(0)
      ELSE Q(n * sumXY - sumX * sumY, n * sumXX - sumX * sumX)

\* the population variance of trend: mean of the squares less the square of
\* the mean, and 0 for the empty trend
VarianceOf(trend) ==
  LET n == Len(trend)
      sumY == ISum(trend)
      sumYY == ISum([i \in 1..n |-> trend[i] * trend[i]])
  IN  IF n = 0 THEN I(0) ELSE Q(n * sumYY - sumY * sumY, n * n)

\* C12: forecastTrend gives every trend exactly one trajectory: volatile if
\* |slope| < 0.5 and variance > 30, otherwise improving if slope > 0.5,
\* otherwise declining if slope < -0.5, otherwise stable; so an empty or
\* constant trend is stable and the week 90, 85, 40, 35, 30, 20, 15 declines
C12_Trajectory ==
  (pc = "forecastTrend" /\ unitCall.called) =>
    LET trend == unitCall.trend
        slope == SlopeOf(trend)
        variance == VarianceOf(trend)
        volatile == RLt(RAbs(slope), Q(1, 2)) /\ RLt(I(30), variance)
        improving == ~volatile /\ RLt(Q(1, 2), slope)
        declining == ~volatile /\ ~improving /\ RLt(slope, Q(-1, 2))
        trajectory == unitResult.trajectory
    IN  /\ trajectory \in {"volatile", "improving", "declining", "stable"}
        /\ trajectory = "volatile" <=> volatile
        /\ trajectory = "improving" <=> improving
        /\ trajectory = "declining" <=> declining
        /\ (\A i \in 1..Len(trend) : trend[i] = trend[1]) =>
             trajectory = "stable"
        /\ trend = FallingWeek => trajectory = "declining"

\* the falling week has been classified, and its variance is above 30
C12_Witness ==
  /\ pc = "forecastTrend"
  /\ unitCall.called
  /\ unitCall.trend = FallingWeek
  /\ RLt(I(30), VarianceOf(unitCall.trend))
  /\ unitResult.trajectory = "declining"

(***************************************************************************)
(* Personas.                                                               *)
(***************************************************************************)
\* the square of the distance from the seven features of a vector (the four
\* rates as they are, velocity, slope and score over 100) to the centroid
\* of the persona at position i of the library
SquaredDistance(features, i) ==
  LET c == personaToCentroid(PERSONA_LIBRARY[i])
      Sq(x) == RMul(x, x)
  IN  RSum(<<Sq(RSub(features.dropout_rate, c.dropout_rate)),
             Sq(RSub(features.first_session_dropout_rate,
                     c.first_session_dropout_rate)),
             Sq(RSub(features.tutor_initiated_reschedule_rate,
                     c.tutor_initiated_reschedule_rate)),
             Sq(RSub(features.no_show_rate, c.no_show_rate)),
             Sq(RSub(RDiv(features.trend_velocity, I(100)),
                     c.trend_velocity)),
             Sq(RSub(RDiv(features.trend_slope, I(100)), c.trend_slope)),
             Sq(RSub(RDiv(features.score, I(100)), c.score))>>)

\* C13: assignPersona returns one of the four personas of the library, the
\* one whose centroid is nearest to the seven features of the vector, and
\* of two personas equally near the one listed first; no other feature of
\* the vector counts
C13_NearestPersona ==
  (pc = "assignPersona" /\ unitCall.called) =>
    \E i \in 1..Len(PERSONA_LIBRARY) :
      /\ unitResult = PERSONA_LIBRARY[i]
      /\ \A j \in 1..Len(PERSONA_LIBRARY) :
           LET mine == SquaredDistance(unitCall.vector.features, i)
               other == SquaredDistance(unitCall.vector.features, j)
           IN  IF j < i THEN RLt(mine, other) ELSE RLe(mine, other)

\* a vector as near to stabilizing as to rising-star got rising-star
C13_Witness ==
  /\ pc = "assignPersona"
  /\ unitCall.called
  /\ SquaredDistance(unitCall.vector.features, 1)
       = SquaredDistance(unitCall.vector.features, 4)
  /\ unitResult = "rising-star"

(***************************************************************************)
(* Formula v1.                                                             *)
(***************************************************************************)
\* C14: formula v1 is 100 less 40 times the dropout rate, 30 times the
\* tech-issue rate, 20 times the reschedule rate and 10 for every star the
\* average rating is short of 5 (a missing rating counts as 5), rounded to
\* the nearest integer and kept within 0..100; nothing else of the metrics
\* counts, and rates 0.30, 0.10, 0.05 with an average of 3.0 score 64
C14_FormulaV1 ==
  (pc = "computeScoreV1" /\ unitCall.called) =>
    LET m == unitCall.metrics
        rating == IF m.avgRating = NULL THEN I(5) ELSE m.avgRating
        penalty ==
          RAdd(RAdd(RMul(I(40), m.dropoutRate), RMul(I(30), m.techIssueRate)),
               RAdd(RMul(I(20), m.rescheduleRate),
                    RMul(I(10), RSub(I(5), rating))))
        raw == RSub(I(100), penalty)
        nearest ==
          CHOOSE k \in -100..200 :
            RLe(RSub(I(k), Q(1, 2)), raw) /\ RLt(raw, RAdd(I(k), Q(1, 2)))
    IN  /\ unitResult =
             (IF nearest < 0 THEN 0 ELSE IF nearest > 100 THEN 100
              ELSE nearest)
        /\ (/\ m.dropoutRate = Q(30, 100)
            /\ m.techIssueRate = Q(10, 100)
            /\ m.rescheduleRate = Q(5, 100)
            /\ m.avgRating = I(3)) => unitResult = 64

\* the metrics of the example have been scored at 64, whatever the
\* first-session, no-show and reschedule-initiator figures
C14_Witness ==
  /\ pc = "computeScoreV1"
  /\ unitCall.called
  /\ unitCall.metrics.dropoutRate = Q(3, 10)
  /\ unitCall.metrics.techIssueRate = Q(1, 10)
  /\ unitCall.metrics.rescheduleRate = Q(1, 20)
  /\ unitCall.metrics.avgRating = I(3)
  /\ unitCall.metrics.firstSessionDropoutRate = I(1)
  /\ unitCall.metrics.noShowRate = I(1)
  /\ unitCall.metrics.tutorInitiatedRescheduleRate = I(1)
  /\ unitResult = 64

(***************************************************************************)
(* At-risk tutors.                                                         *)
(***************************************************************************)
\* the tutors of the first fifth of the ranking, one at least if there is
\* one
BottomFifth(tutors) ==
  LET fifth == Len(tutors) \div 5
  IN  {tutors[i].tutor_id :
         i \in {j \in 1..Len(tutors) : j <= 1 \/ j <= fifth}}

\* the tutors whose score is below 60
Below60(tutors) ==
  {tutors[i].tutor_id : i \in {j \in 1..Len(tutors) : tutors[j].score < 60}}

\* C15 as the spec states it: when at most 50 tutors have a score below 60
\* or are in the bottom 20% of the ranking, selectAtRiskTutors returns every
\* one of them
C15_AsStated ==
  (pc = "selectAtRiskTutors" /\ unitCall.called) =>
    LET either == Below60(unitCall.tutors) \cup BottomFifth(unitCall.tutors)
    IN  Cardinality(either) <= 50 =>
          either \subseteq {unitResult[i].tutor_id : i \in 1..Len(unitResult)}

(***************************************************************************)
(* POST /api/recompute.                                                    *)
(***************************************************************************)
Blanks(n) == [i \in 1..n |-> " "]

\* RECOMPUTE_SECRET is set to something
Configured(env) == env.set /\ env.value # <<>>

\* the header is "Bearer ", blanks, the secret, blanks, and the secret
\* neither starts nor ends with a blank
BearerOf(authHeader, env) ==
  /\ env.value # <<>>
  /\ env.value[1] # " "
  /\ env.value[Len(env.value)] # " "
  /\ \E before, after \in 0..Len(authHeader) :
       authHeader = Bearer \o Blanks(before) \o env.value \o Blanks(after)

\* the two files are what they were when the request arrived
FilesUntouched == FilesOfRun(<<"T1">>)

Holds(filePath, of, batch) ==
  readFileAndParse(filePath) =
    [ok |-> TRUE, value |-> [of |-> of, tutors |-> batch]]

\* C17 as the spec states it: when runScoringPipeline has failed, at
\* whatever step, scores.json and explanations.json both hold the complete
\* content of the last successful run
C17_AsStated ==
  runs[1].pc = "failed" =>
    /\ Holds(OUTPUT_PATH, 0, <<"T1">>)
    /\ Holds(EXPLANATIONS_PATH, 0, <<"T1">>)

(***************************************************************************)
(* Two invocations at once.                                                *)
(***************************************************************************)
\* the file is whole: what was there before, or what one of the two
\* invocations wrote
Whole(filePath) ==
  \/ Holds(filePath, 0, <<"T2">>)
  \/ \E r \in Runs : runs[r].writing # 0 /\ Holds(filePath, r, runs[r].batch)

\* C18 as the spec states it: while two invocations overlap, scores.json and
\* explanations.json each hold at every moment the previous content or the
\* complete output of one invocation, and neither invocation fails
C18_AsStated ==
  /\ Whole(OUTPUT_PATH)
  /\ Whole(EXPLANATIONS_PATH)
  /\ \A r \in Runs : runs[r].pc # "failed"

(***************************************************************************)
(* GET /api/scores.                                                        *)
(***************************************************************************)
\* the file is there and is the whole text of some output
Valid(filePath) ==
  /\ files[filePath] # 0
  /\ \E batch \in Batches :
       inodes[files[filePath]] =
         Serialized(filePath, [of |-> 1, tutors |-> batch])

\* the tutor ids of a valid file, in its order
TutorsIn(filePath) == inodes[files[filePath]][1].data.tutors

SessionsOn(i) ==
  LET OnDate(s) == s.date = trendCall.dates[i]
  IN  SelectSeq(trendCall.sessions, OnDate)

\* the raw value at position i: the score of the sessions of the latest date
\* up to i that has any, the fallback score when there is none
RawAt(i) ==
  LET days == {j \in 1..i : SessionsOn(j) # <<>>}
  IN  IF days = {} THEN trendCall.fallbackScore
      ELSE computeScore(
             computeMetrics(
               SessionsOn(CHOOSE j \in days : \A k \in days : k <= j)),
             formulaVersion)

\* value is sum / count rounded to the nearest integer, a half upwards
RoundedMean(value, sum, count) ==
  /\ 2 * count * value <= 2 * sum + count
  /\ 2 * sum + count < 2 * count * (value + 1)

\* C20: the value buildTrendForTutor returns at position i is the rounded
\* mean of the raw values at the positions i - 1, i and i + 1 that exist,
\* where the raw value of a date is the score of that date's sessions alone
\* if there are any, else the raw value of the date before it, and the
\* fallback score (the tutor's overall score) before the first day with
\* sessions
C20_Trend ==
  trendCall.called =>
    LET n == Len(trendCall.dates)
    IN  /\ Len(trendResult) = n
        /\ \A i \in 1..n :
             LET window == {j \in 1..n : i - 1 <= j /\ j <= i + 1}
                 before == IF i - 1 \in window THEN RawAt(i - 1) ELSE 0
                 after == IF i + 1 \in window THEN RawAt(i + 1) ELSE 0
             IN  RoundedMean(trendResult[i], before + RawAt(i) + after,
                             Cardinality(window))

\* a good session on the first date and a first-session dropout on the third
\* of four: the raw values are good, good, dropout, dropout, and the output
\* falls from the first raw value to the last in two steps
C20_Witness ==
  /\ trendCall.called
  /\ trendCall.sessions = <<kGood(1), kFirstDropout(3)>>
  /\ Len(trendCall.dates) = 4
  /\ RawAt(2) = RawAt(1)
  /\ RawAt(4) = RawAt(3)
  /\ RawAt(4) # trendCall.fallbackScore
  /\ trendResult[1] = RawAt(1)
  /\ trendResult[1] > trendResult[2]
  /\ trendResult[2] > trendResult[3]
  /\ trendResult[3] > trendResult[4]
  /\ trendResult[4] = RawAt(4)

(***************************************************************************)
(* Heuristic churn risk.                                                   *)
(***************************************************************************)
\* a rate in thousandths
Thousandths(rate) == (rate[1] * 1000) \div rate[2]

\* C21: computeChurnRisk returns, clamped to [0, 1], dropout * 0.4 +
\* noShow * 0.3 + tutorReschedule * 0.2 + firstSessionDropout * 0.1, plus
\* 0.05 only for a first-session rating that is there and below 3.0, plus the
\* bonus of the one band the score is in (0.12 below 50, 0.08 below 60, 0.04
\* below 70), plus, only for a trend of two values or more, the one
\* adjustment its delta last - first calls for (0.07 below -15, 0.04 below
\* -8, -0.03 above 5)
C21_ChurnRisk ==
  (pc = "computeChurnRisk" /\ unitCall.called) =>
    LET m == unitCall.metrics
        trend == unitCall.trend
        weighted ==
          4 * Thousandths(m.dropoutRate) + 3 * Thousandths(m.noShowRate)
          + 2 * Thousandths(m.tutorInitiatedRescheduleRate)
          + Thousandths(m.firstSessionDropoutRate)
        lowFirst ==
          m.firstSessionAvgRating # NULL
          /\ m.firstSessionAvgRating[1] < 3 * m.firstSessionAvgRating[2]
        band ==
          CASE unitCall.score < 50 -> 1200
            [] unitCall.score \in 50..59 -> 800
            [] unitCall.score \in 60..69 -> 400
            [] OTHER -> 0
        delta == trend[Len(trend)] - trend[1]
        adjustment ==
          CASE Len(trend) < 2 -> 0
            [] Len(trend) >= 2 /\ delta < -15 -> 700
            [] Len(trend) >= 2 /\ delta \in -15..-9 -> 400
            [] Len(trend) >= 2 /\ delta > 5 -> -300
            [] OTHER -> 0
        total == weighted + (IF lowFirst THEN 500 ELSE 0) + band + adjustment
    IN  unitResult =
          Q(IF total < 0 THEN 0 ELSE IF total > 10000 THEN 10000 ELSE total,
            10000)

\* half the sessions dropped, first sessions rated 2.9, score 59 and a trend
\* that fell by 16: 0.2 + 0.05 + 0.08 + 0.07
C21_Witness ==
  /\ pc = "computeChurnRisk"
  /\ unitCall.called
  /\ unitCall.metrics.dropoutRate = Q(1, 2)
  /\ unitCall.metrics.noShowRate = I(0)
  /\ unitCall.metrics.tutorInitiatedRescheduleRate = I(0)
  /\ unitCall.metrics.firstSessionDropoutRate = I(0)
  /\ unitCall.metrics.firstSessionAvgRating = Q(29, 10)
  /\ unitCall.score = 59
  /\ unitCall.trend = <<50, 34>>
  /\ unitResult = Q(40, 100)

(***************************************************************************)
(* Feature statistics.                                                     *)
(***************************************************************************)
\* the population variance of a feature over the batch of the call, exactly
PopulationVariance(key) ==
  LET vectors == unitCall.vectors
      n == IF Len(vectors) = 0 THEN 1 ELSE Len(vectors)
      mean ==
        RDiv(RSum([i \in 1..Len(vectors) |-> vectors[i].features[key]]), I(n))
  IN  RDiv(RSum([i \in 1..Len(vectors) |->
                   RMul(RSub(vectors[i].features[key], mean),
                        RSub(vectors[i].features[key], mean))]),
           I(n))

C23_SameFormula ==
  (pc = "tutorDetails" /\ unitCall.called) =>
    /\ unitResult.metrics = computeMetrics(unitCall.sessions)
    /\ unitResult.score =
         computeScore(computeMetrics(unitCall.sessions), formulaVersion)

\* a history with reschedules by the tutor and by the student, first
\* sessions and no-shows has been scored by the details API under v2, below
\* 100
C23_Witness ==
  /\ pc = "tutorDetails"
  /\ unitCall.called
  /\ formulaVersion = "v2"
  /\ unitResult.metrics.firstSessionCount > 0
  /\ unitResult.metrics.noShowCount > 0
  /\ unitResult.metrics.tutorInitiatedRescheduleCount > 0
  /\ RLt(unitResult.metrics.tutorInitiatedRescheduleRate, I(1))
  /\ unitResult.score > 0
  /\ unitResult.score < 100

(***************************************************************************)
(* The at-risk list.                                                       *)
(***************************************************************************)
\* the lowest score among the tutors of a set of ids
LowestScore(tutors, ids) ==
  CHOOSE score \in {tutors[i].score : i \in 1..Len(tutors)} :
    /\ \E i \in 1..Len(tutors) :
         tutors[i].tutor_id \in ids /\ tutors[i].score = score
    /\ \A i \in 1..Len(tutors) :
         tutors[i].tutor_id \in ids => score <= tutors[i].score

\* the list is in order of score, then tutor_id
AscendingList(list) ==
  \A i, j \in 1..Len(list) :
    i < j =>
      \/ list[i].score < list[j].score
      \/ list[i].score = list[j].score /\ list[i].tutor_id < list[j].tutor_id

C28_Prefix ==
  (pc = "selectAtRiskTutors" /\ unitCall.called) =>
    /\ Len(unitResult) <= Len(unitCall.tutors)
    /\ unitResult = SubSeq(unitCall.tutors, 1, Len(unitResult))
    /\ \A i, j \in 1..Len(unitResult) :
         i # j => unitResult[i].tutor_id # unitResult[j].tutor_id
    /\ \A k \in 1..Len(unitCall.tutors) :
         k > Len(unitResult) =>
           \A i \in 1..Len(unitResult) :
             unitCall.tutors[k].score >= unitResult[i].score

\* ten tutors, six of them with the score 40: the list is the first two, and
\* four tutors with the same score 40 are left out
C28_Witness ==
  /\ pc = "selectAtRiskTutors"
  /\ unitCall.called
  /\ Len(unitCall.tutors) = 10
  /\ unitCall.tutors[6].score = 40
  /\ unitCall.tutors[7].score > 40
  /\ Len(unitResult) = 2
  /\ unitResult[2] = unitCall.tutors[2]

(***************************************************************************)
(* The two first-session dropout weights of formula v2.                    *)
(***************************************************************************)
\* the metrics with firstSessionCount replaced: computeScoreV2 reads the
\* count only to choose the weight, 35 for a positive count and 20 for 0
WithFirstSessionCount(metrics, count) ==
  [metrics EXCEPT !.firstSessionCount = count]

\* C30: for the metrics computeMetrics returns, firstSessionDropoutRate is 0
\* whenever firstSessionCount is 0, so the v2 score is the same whichever of
\* the two weights, 35 or 20, is applied to the first-session dropout rate
C30_WeightChoice ==
  (pc = "computeScoreV2" /\ unitCall.called) =>
    /\ unitResult.metrics.firstSessionCount = 0 =>
         unitResult.metrics.firstSessionDropoutRate = I(0)
    /\ unitResult.metrics.firstSessionCount = 0 =>
         /\ unitResult.score =
              computeScoreV2(WithFirstSessionCount(unitResult.metrics, 0))
         /\ unitResult.score =
              computeScoreV2(WithFirstSessionCount(unitResult.metrics, 1))

\* a tutor with dropouts and no first session: the weight 20 is chosen, and
\* the score is below 100
C30_Witness ==
  /\ pc = "computeScoreV2"
  /\ unitCall.called
  /\ unitResult.metrics.firstSessionCount = 0
  /\ RLt(I(0), unitResult.metrics.dropoutRate)
  /\ unitResult.score < 100
  /\ unitResult.score > 0

(***************************************************************************)
(* The signals of a bundle.                                                *)
(***************************************************************************)
\* the place of a signal in the order churn, anomaly, trajectory, persona
SignalRank(signal) ==
  CASE signal[1] \in {"High churn probability", "Moderate churn probability"}
         -> 1
    [] signal[1] \in {"Critical anomaly detected",
                      "Unusual metric pattern detected"} -> 2
    [] signal[1] \in {"Forecast indicates decline", "Performance is volatile"}
         -> 3
    [] signal[1] = "Persona: " -> 4

\* C29: the persona of a bundle is one of the four profiles of the library,
\* never null; so the signals are not empty and at most 4, they come in the
\* order churn, anomaly, trajectory, persona with at most one of each, and
\* the last one is the signal of the bundle's persona
C29_Signals ==
  (pc = "buildSignals" /\ unitCall.called) =>
    /\ unitResult.persona # "null"
    /\ unitResult.persona \in
         {"rising-star", "at-risk-newcomer", "reliability-challenged",
          "stabilizing"}
    /\ unitResult.signals # <<>>
    /\ Len(unitResult.signals) <= 4
    /\ \A i, j \in 1..Len(unitResult.signals) :
         i < j =>
           SignalRank(unitResult.signals[i]) < SignalRank(unitResult.signals[j])
    /\ unitResult.signals[Len(unitResult.signals)] =
         <<"Persona: ", labelOf(unitResult.persona)>>

\* a bundle with all four signals: high churn, a critical anomaly, a
\* declining forecast, and the persona last
C29_Witness ==
  /\ pc = "buildSignals"
  /\ unitCall.called
  /\ Len(unitResult.signals) = 4
  /\ unitResult.signals[1] = <<"High churn probability", I(75)>>
  /\ unitResult.signals[2] = <<"Critical anomaly detected">>
  /\ unitResult.signals[3] = <<"Forecast indicates decline">>
  /\ unitResult.signals[4] = <<"Persona: ", "At-Risk Newcomer">>

(***************************************************************************)
(* The formula version the two GET handlers report.                        *)
(***************************************************************************)
\* the daily scores of the details response under the given version
DaysUnder(version) ==
  buildDailySeries(unitCall.sessions,
                   buildDateRange(IF MaxDate(unitCall.sessions) # NoDate
                                  THEN MaxDate(unitCall.sessions) ELSE Today,
                                  DetailsDays),
                   unitCall.scores.score, version)

\* C27: whatever scores.json holds as formula_version (no field and an
\* unknown value included), the responses of GET /api/scores and of
\* GET /api/tutor/[id] carry the same formula_version, and the daily scores
\* of the second are computed under that version
C27_AsStated ==
  (pc = "GET" /\ unitResult.scores.status = 200
     /\ unitResult.tutor.status = 200) =>
    /\ unitResult.scores.formula_version = unitResult.tutor.formula_version
    /\ unitResult.tutor.days = DaysUnder(unitResult.tutor.formula_version)

(***************************************************************************)
(* The explanations of a batch.                                            *)
(***************************************************************************)
\* the workers that wait for the answer to a request
InFlight ==
  {w \in 1..Len(explain.workers) : explain.workers[w].pc = "inflight"}

Explaining ==
  pc = "generateExplanationsForAll" /\ explain.pc \in {"running", "returned"}

\* C25: at no moment more than 4 requests to the LLM are in flight; at most
\* 2 requests are sent for an at-risk tutor and none for another tutor; when
\* the call returns, a tutor whose requests all failed has the template
\* explanation; without an API key or without an at-risk tutor no request is
\* sent and every tutor has the template explanation
C25_Requests ==
  Explaining =>
    /\ Cardinality(InFlight) <= 4
    /\ \A tutor \in Range(unitCall.allTutors) :
         /\ explain.requests[tutor] <= 2
         /\ tutor \notin Range(unitCall.atRiskTutors) =>
              explain.requests[tutor] = 0
         /\ (explain.pc = "returned"
               /\ explain.failures[tutor] = explain.requests[tutor]) =>
              explain.result.map[tutor] = buildFallbackExplanation(tutor)
    /\ (unitCall.apiKey = "" \/ unitCall.atRiskTutors = <<>>) =>
         /\ explain.pc = "returned"
         /\ \A tutor \in Range(unitCall.allTutors) :
              /\ explain.requests[tutor] = 0
              /\ explain.result.map[tutor] = buildFallbackExplanation(tutor)

\* five tutors at risk: four requests in flight, one of them the second for
\* its tutor, and the fifth tutor waits for a worker
C25_Witness ==
  /\ Explaining
  /\ Len(unitCall.atRiskTutors) = 5
  /\ Cardinality(InFlight) = 4
  /\ explain.processed[5] = 0
  /\ \E w \in InFlight :
       /\ explain.workers[w].attempt = 1
       /\ explain.requests[explain.workers[w].tutor] = 2
       /\ explain.failures[explain.workers[w].tutor] = 1

\* what holds of the workers and of the value returned
WorkersInvariant ==
  Explaining =>
    /\ \A tutor \in Range(unitCall.atRiskTutors) :
         /\ explain.processed[tutor] <= 1
    /\ \A v, w \in 1..Len(explain.workers) :
         (/\ v # w
          /\ explain.workers[v].pc \in {"inflight", "processed"}
          /\ explain.workers[w].pc \in {"inflight", "processed"}) =>
           explain.workers[v].tutor # explain.workers[w].tutor
    /\ explain.pc = "returned" =>
         /\ \A w \in 1..Len(explain.workers) : explain.workers[w].pc = "done"
         /\ explain.workers # <<>> =>
              \A tutor \in Range(unitCall.atRiskTutors) :
                explain.processed[tutor] = 1
         /\ DOMAIN explain.result.map = Range(unitCall.allTutors)
         /\ \A tutor \in Range(unitCall.allTutors) :
              explain.result.map[tutor].tutor_id = tutor
         /\ explain.result.aiGenerated <= Len(unitCall.atRiskTutors)
         /\ explain.result.aiGenerated + explain.result.fallbackGenerated =
              Len(unitCall.allTutors)
         /\ explain.result.aiGenerated =
              Cardinality({tutor \in Range(unitCall.allTutors) :
                             explain.result.map[tutor] = llmExplanation(tutor)})

\* C26: the workers take every at-risk tutor exactly once, none twice and
\* none left out, and every worker ends, so the call returns; the map
\* returned has one explanation for each tutor of the batch, aiGenerated is
\* at most the number of at-risk tutors, and aiGenerated plus
\* fallbackGenerated is the number of tutors
C26_Workers == []WorkersInvariant /\ <>(explain.pc = "returned")

\* five at-risk tutors of five, each processed once: three explained by the
\* LLM, two by the template
C26_Witness ==
  /\ Explaining
  /\ explain.pc = "returned"
  /\ Len(unitCall.atRiskTutors) = 5
  /\ \A tutor \in 1..5 : explain.processed[tutor] = 1
  /\ explain.result.aiGenerated = 3
  /\ explain.result.fallbackGenerated = 2

====
